---- MODULE Spec2Model ----
(***************************************************************************)
(* Citation reconciliation and aggregation of hed-task                     *)
(* (src/src/hed_task/summarize_citations.py), and the collection, PubMed   *)
(* download, command-line and API layers around it.                        *)
(*                                                                         *)
(* Python dicts are TLA+ functions from key strings to values; every value *)
(* of a citation reference is a string.  The citation store is the         *)
(* directory citation_data: a function from the citation ids that have a   *)
(* citation_details.json to the content of that file.                      *)
(*                                                                         *)
(*   Spec         calls of process_citation on a store that starts empty   *)
(*   SpecRun      runs of summarize_citations over a fixed input directory *)
(*   SpecFaults   the same runs on a disk where writes may fail            *)
(*   SpecTask     process_task_citations on one task directory             *)
(*   SpecResolve  extract_citation_id on one reference, across processes   *)
(*   SpecCompare  compare_citation_details on a pair of dicts              *)
(*   SpecDamaged  process_citation on a store with an unusable file        *)
(*   SpecParse    parse_article_ids on a list of article ids               *)
(*   SpecPubmed   process_citations of download_pubmed.py on a table       *)
(*   SpecCollect  the task collection runs and the script built on them    *)
(*   SpecApi      the API server: its routes and its background tasks      *)
(*   SpecWorkflow the command full-workflow                                *)
(*                                                                         *)
(* Of the runs of summarize_citations, only those of SpecFaults, SpecApi   *)
(* and SpecWorkflow meet a write that fails: a citation file that cannot   *)
(* be opened for writing, a citation file whose json.dump breaks off after *)
(* the open has truncated it, a table that cannot be written.              *)
(***************************************************************************)
EXTENDS Integers, Sequences, FiniteSets, TLC

VARIABLES
    hashSeed,   \* the str-hash secret of the running interpreter process
    store,      \* citation_data: cit_id -> content of citation_details.json
    task_data,  \* task_data: the directory entries, in iterdir() order
    tsv,        \* citation_summary.tsv: the data rows, or NoTable
    args,       \* the arguments a caller holds for the pure functions
    call,       \* the last operation: its inputs, what it read, its result
    log,        \* the log records the last operation emitted
    ops,        \* number of operations performed so far
    threads     \* the API server's threads: what each one is running

vars == <<hashSeed, store, task_data, tsv, args, call, log, ops, threads>>

-----------------------------------------------------------------------------
(* Bounds of the model. *)

\* operations (calls, runs, interpreter starts) in one behaviour
MaxOps == 3
\* task identifiers trm_1, tsk_2, trm_3, ...
MaxTasks == 2
\* citation references in one task's citation list
MaxCitations == 2
\* article ids in a list handed to parse_article_ids
MaxIds == 3
\* data rows of the citation_summary.tsv a PubMed download reads
MaxRows == 2
\* tasks in the list the Cognitive Atlas API returns
MaxListed == 3

-----------------------------------------------------------------------------
(* Python built-ins. *)

\* dict.get(k, default)
Get(d, k, default) == IF k \in DOMAIN d THEN d[k] ELSE default

\* truth value of d.get(k): the key is there and its string is not empty
Truthy(d, k) == k \in DOMAIN d /\ d[k] # ""

\* str.startswith(p)
StartsWith(s, p) == Len(s) >= Len(p) /\ SubSeq(s, 1, Len(p)) = p

\* str.split(sep) for a one-character sep: the parts of s from position i on,
\* the current part starting at position start
RECURSIVE SplitFrom(_, _, _, _)
SplitFrom(s, sep, i, start) ==
    IF i > Len(s) THEN <<SubSeq(s, start, Len(s))>>
    ELSE IF SubSeq(s, i, i) = sep
         THEN <<SubSeq(s, start, i - 1)>> \o SplitFrom(s, sep, i + 1, i + 1)
         ELSE SplitFrom(s, sep, i + 1, start)

Split(s, sep) == SplitFrom(s, sep, 1, 1)

\* the characters the modelled strings are written in; Ord(c) is the index
Alphabet == "abcdefghijklmnopqrstuvwxyzABCDEFGHIJKLMNOPQRSTUVWXYZ0123456789_./:- "

Ord(c) == CHOOSE i \in 1..Len(Alphabet) : SubSeq(Alphabet, i, i) = c

\* width of the modelled str hash
HashModulus == 1048573

\* hash(s) for a str: CPython keys its string hash with a secret drawn when
\* the interpreter starts (PYTHONHASHSEED), so the value is a function of the
\* secret and the characters.  The keyed polynomial stands for SipHash.
RECURSIVE HashFrom(_, _, _)
HashFrom(s, i, h) ==
    IF i > Len(s) THEN h
    ELSE HashFrom(s, i + 1, (h * 131 + Ord(SubSeq(s, i, i))) % HashModulus)

hash(s, seed) == HashFrom(s, 1, (seed * 7919 + Len(s)) % HashModulus)

-----------------------------------------------------------------------------
(* compare_citation_details *)

key_fields_without_doi == <<"id", "citation_pmid", "citation_url", "citation_desc">>

key_fields == <<"id", "citation_pmid", "citation_url", "citation_desc", "doi">>

compare_citation_details(existing_citation, new_citation) ==
    \A i \in 1..Len(key_fields) :
        Get(existing_citation, key_fields[i], "") = Get(new_citation, key_fields[i], "")

-----------------------------------------------------------------------------
(* extract_citation_id *)

\* the loop over reversed(url_parts): the last part that is not empty and does
\* not start with "http", or "" when the loop ends without returning
RECURSIVE LastPart(_, _)
LastPart(url_parts, i) ==
    IF i = 0 THEN ""
    ELSE IF url_parts[i] # "" /\ ~StartsWith(url_parts[i], "http")
         THEN url_parts[i]
         ELSE LastPart(url_parts, i - 1)

DescModulus == 1000000

\* the pubmed id tried before the id
extract_citation_id_pmid_first(citation, seed) ==
    LET url_parts == Split(citation["citation_url"], "/")
        desc == Get(citation, "citation_desc", "unknown")
        by_desc == "desc_" \o ToString(hash(desc, seed) % DescModulus)
    IN  IF Truthy(citation, "citation_pmid")
        THEN "pmid_" \o citation["citation_pmid"]
        ELSE IF Truthy(citation, "id") THEN citation["id"]
        ELSE IF Truthy(citation, "citation_url")
                /\ LastPart(url_parts, Len(url_parts)) # ""
             THEN "url_" \o LastPart(url_parts, Len(url_parts))
        ELSE by_desc

extract_citation_id(citation, seed) ==
    LET url_parts == Split(citation["citation_url"], "/")
        desc == Get(citation, "citation_desc", "unknown")
        by_desc == "desc_" \o ToString(hash(desc, seed) % DescModulus)
    IN  IF Truthy(citation, "id") THEN citation["id"]
        ELSE IF Truthy(citation, "citation_pmid")
             THEN "pmid_" \o citation["citation_pmid"]
        ELSE IF Truthy(citation, "citation_url")
                /\ LastPart(url_parts, Len(url_parts)) # ""
             THEN "url_" \o LastPart(url_parts, Len(url_parts))
        ELSE by_desc

-----------------------------------------------------------------------------
(* The content of a citation_details.json: a JSON object, or bytes that     *)
(* json.load rejects.                                                       *)

NoData == [k \in {} |-> ""]

JsonFile(d) == [state |-> "json", data |-> d]
GarbageFile == [state |-> "garbage", data |-> NoData]
NoFile == [state |-> "absent", data |-> NoData]
\* a file that holds valid JSON which is no object, a list for one
NoObjectFile == [state |-> "no_object", data |-> NoData]

\* x in a list
InList(x, list) == \E i \in 1..Len(list) : list[i] = x

LogRec(level, event, cit_id, task_id) ==
    [level |-> level, event |-> event, cit_id |-> cit_id, task_id |-> task_id]

-----------------------------------------------------------------------------
(* process_citation *)

\* the id taken from the citation instead of the derived one
NewDetailsRawId(citation, task_id, cit_id) ==
    [id               |-> Get(citation, "id", ""),
     citation_pmid    |-> Get(citation, "citation_pmid", ""),
     citation_url     |-> Get(citation, "citation_url", ""),
     citation_desc    |-> Get(citation, "citation_desc", ""),
     doi              |-> Get(citation, "doi", ""),
     citation_pubname |-> Get(citation, "citation_pubname", ""),
     citation_authors |-> Get(citation, "citation_authors", ""),
     citation_pubdate |-> Get(citation, "citation_pubdate", ""),
     citation_type    |-> Get(citation, "citation_type", ""),
     citation_source  |-> Get(citation, "citation_source", ""),
     citation_comment |-> Get(citation, "citation_comment", ""),
     related_tasks    |-> <<task_id>>]

\* the citation_details dict built from the incoming citation
NewDetails(citation, task_id, cit_id) ==
    [id               |-> cit_id,
     citation_pmid    |-> Get(citation, "citation_pmid", ""),
     citation_url     |-> Get(citation, "citation_url", ""),
     citation_desc    |-> Get(citation, "citation_desc", ""),
     doi              |-> Get(citation, "doi", ""),
     citation_pubname |-> Get(citation, "citation_pubname", ""),
     citation_authors |-> Get(citation, "citation_authors", ""),
     citation_pubdate |-> Get(citation, "citation_pubdate", ""),
     citation_type    |-> Get(citation, "citation_type", ""),
     citation_source  |-> Get(citation, "citation_source", ""),
     citation_comment |-> Get(citation, "citation_comment", ""),
     related_tasks    |-> <<task_id>>]

\* the conflict branch: the existing details are taken over only when the
\* task id had to be appended
ConflictDetails(existing_details, new_details, task_id) ==
    IF ~InList(task_id, Get(existing_details, "related_tasks", <<>>))
    THEN [existing_details EXCEPT !["related_tasks"] = Append(@, task_id)]
    ELSE new_details

\* the task id appended without the membership test
MatchDetailsAlwaysAppend(existing_details, task_id) ==
    [existing_details EXCEPT !["related_tasks"] = Append(@, task_id)]

\* the task id put in front
MatchDetailsPrepend(existing_details, task_id) ==
    IF ~InList(task_id, Get(existing_details, "related_tasks", <<>>))
    THEN [existing_details EXCEPT !["related_tasks"] = <<task_id>> \o @]
    ELSE existing_details

\* the matching branch: the existing details are always taken over
MatchDetails(existing_details, task_id) ==
    IF ~InList(task_id, Get(existing_details, "related_tasks", <<>>))
    THEN [existing_details EXCEPT !["related_tasks"] = Append(@, task_id)]
    ELSE existing_details

\* lines 141-156: the write of the citation file and the returned row.  What
\* the call yields: the id, the file it found, the details it ends with, the
\* store it leaves, the row it returns and the records it logs.  `write` is
\* how the write ends: "ok"; "open_fails", open(citation_file, "w") raises and
\* the file stays as it was; "dump_fails", json.dump raises after the open
\* has truncated the file, which is left unparsable.
WriteAndReturn(cit_id, task_id, existing, citation_details, records, files, write) ==
    [cit_id   |-> cit_id,
     existing |-> existing,
     details  |-> citation_details,
     files    |-> IF write = "open_fails" THEN files
                  ELSE [c \in DOMAIN files \cup {cit_id} |->
                           IF c # cit_id THEN files[c]
                           ELSE IF write = "ok" THEN JsonFile(citation_details)
                           ELSE GarbageFile],
     row      |-> [cit_id        |-> cit_id,
                   task_id       |-> task_id,
                   doi           |-> Get(citation_details, "doi", ""),
                   citation_pmid |-> Get(citation_details, "citation_pmid", ""),
                   citation_url  |-> Get(citation_details, "citation_url", ""),
                   citation_desc |-> Get(citation_details, "citation_desc", "")],
     log      |-> records
                  \o (IF write # "ok"
                      THEN <<LogRec("ERROR", "write", cit_id, task_id)>> ELSE <<>>)]

\* a found entity without related_tasks is kept and given the list
ReconcileRepairs(cit_id, task_id, new_details, existing, files, write) ==
    LET existing_details == existing.data
        decode_error == existing.state = "garbage"
        loaded == existing.state = "json"
        conflict == loaded /\ ~compare_citation_details(existing_details, new_details)
        key_error == loaded /\ "related_tasks" \notin DOMAIN existing_details
    IN  WriteAndReturn(
            cit_id, task_id, existing,
            IF ~loaded THEN new_details
            ELSE IF key_error
                 THEN [k \in DOMAIN existing_details \cup {"related_tasks"} |->
                          IF k = "related_tasks" THEN <<task_id>>
                          ELSE existing_details[k]]
            ELSE IF conflict
                 THEN ConflictDetails(existing_details, new_details, task_id)
                 ELSE MatchDetails(existing_details, task_id),
            (IF conflict THEN <<LogRec("WARNING", "conflict", cit_id, task_id)>> ELSE <<>>)
            \o (IF decode_error \/ key_error
                THEN <<LogRec("ERROR", "read", cit_id, task_id)>> ELSE <<>>),
            files, write)

\* lines 113-139: the reconciliation with the file found under cit_id
Reconcile(cit_id, task_id, new_details, existing, files, write) ==
    LET existing_details == existing.data
        decode_error == existing.state = "garbage"
        loaded == existing.state = "json"
        conflict == loaded /\ ~compare_citation_details(existing_details, new_details)
        key_error == loaded /\ "related_tasks" \notin DOMAIN existing_details
    IN  WriteAndReturn(
            cit_id, task_id, existing,
            IF ~loaded \/ key_error THEN new_details
            ELSE IF conflict
                 THEN ConflictDetails(existing_details, new_details, task_id)
                 ELSE MatchDetails(existing_details, task_id),
            (IF conflict THEN <<LogRec("WARNING", "conflict", cit_id, task_id)>> ELSE <<>>)
            \o (IF decode_error \/ key_error
                THEN <<LogRec("ERROR", "read", cit_id, task_id)>> ELSE <<>>),
            files, write)

\* The disk under the run: how df.to_csv ends, the citation ids whose
\* citation_details.json cannot be written, how the write of those ends, and
\* the number of writes of citation files that succeed before that.
NoFaults ==
    [tsv |-> "ok", unwritable |-> {}, write_error |-> "open_fails", sound |-> 0]

\* how the write of the file of cit_id ends
WriteOutcome(cit_id, faults) ==
    IF cit_id \in faults.unwritable /\ faults.sound = 0
    THEN faults.write_error
    ELSE "ok"

\* the disk after n more writes of citation files
Worn(faults, n) == [faults EXCEPT !.sound = IF @ > n THEN @ - n ELSE 0]

\* lines 93-111: the details built for the derived id, the file looked up
Prepare(cit_id, citation, task_id, files, faults) ==
    Reconcile(cit_id, task_id, NewDetails(citation, task_id, cit_id),
              IF cit_id \in DOMAIN files THEN files[cit_id] ELSE NoFile,
              files, WriteOutcome(cit_id, faults))

\* The whole call, on the store `files` of the disk `faults`.
process_citation(citation, task_id, files, seed, faults) ==
    Prepare(extract_citation_id(citation, seed), citation, task_id, files, faults)

-----------------------------------------------------------------------------
(* process_task_citations and summarize_citations *)

\* a row of the table in column_order
TableRow(row) ==
    <<row.cit_id, row.task_id, row.doi, row.citation_pmid, row.citation_url,
      row.citation_desc>>

\* the row put in front
CitationStepPrepend(acc, r) ==
    [rows |-> <<r.row>> \o acc.rows, files |-> r.files, log |-> acc.log \o r.log,
     raised |-> FALSE]

\* one round of the loop over citations: the row appended, the store updated
CitationStep(acc, r) ==
    [rows |-> Append(acc.rows, r.row), files |-> r.files, log |-> acc.log \o r.log,
     raised |-> FALSE]

\* the for loop over citations, from the i-th on
RECURSIVE CitationLoop(_, _, _, _, _, _)
CitationLoop(citations, i, task_id, acc, seed, faults) ==
    IF i > Len(citations) THEN acc
    ELSE CitationLoop(citations, i + 1, task_id,
                      CitationStep(acc, process_citation(citations[i], task_id,
                                                         acc.files, seed, faults)),
                      seed, Worn(faults, 1))

\* one row without a citation for a task that has none
NoRowsPlaceholder(files, level, event, task_id) ==
    [rows |-> <<[cit_id |-> "", task_id |-> task_id, doi |-> "",
                 citation_pmid |-> "", citation_url |-> "", citation_desc |-> ""]>>,
     files |-> files, log |-> <<LogRec(level, event, "", task_id)>>,
     raised |-> FALSE]

\* a task that yields no rows
NoRows(files, level, event, task_id) ==
    [rows |-> <<>>, files |-> files, log |-> <<LogRec(level, event, "", task_id)>>,
     raised |-> FALSE]

\* task_details.get on a JSON value that is no object: the AttributeError
\* leaves process_task_citations; the loop of summarize_citations logs it
Raises(files, task_id) ==
    [rows |-> <<>>, files |-> files,
     log |-> <<LogRec("ERROR", "task_dir", "", task_id)>>, raised |-> TRUE]

\* task_dir is a directory entry [name, is_dir, details]
process_task_citations(task_dir, files, seed, faults) ==
    IF task_dir.details.state = "absent"
    THEN NoRows(files, "WARNING", "no_details", task_dir.name)
    ELSE IF task_dir.details.state = "garbage"
    THEN NoRows(files, "ERROR", "read_details", task_dir.name)
    ELSE IF task_dir.details.state = "no_object"
    THEN Raises(files, task_dir.name)
    ELSE IF Get(task_dir.details.data, "citation", <<>>) = <<>>
    THEN NoRows(files, "INFO", "no_citations", task_dir.name)
    ELSE CitationLoop(task_dir.details.data["citation"], 1, task_dir.name,
                      [rows |-> <<>>, files |-> files, log |-> <<>>,
                       raised |-> FALSE],
                      seed, faults)

\* any entry whose name starts with trm or tsk
IsTaskDirLoose(d) == StartsWith(d.name, "trm") \/ StartsWith(d.name, "tsk")

\* the entries of task_data that are task directories, in iterdir() order
IsTaskDir(d) == d.is_dir /\ (StartsWith(d.name, "trm_") \/ StartsWith(d.name, "tsk_"))

RECURSIVE TaskDirs(_, _)
TaskDirs(entries, i) ==
    IF i > Len(entries) THEN <<>>
    ELSE (IF IsTaskDir(entries[i]) THEN <<entries[i]>> ELSE <<>>)
         \o TaskDirs(entries, i + 1)

\* a row only for a citation id that no earlier task had a row for
TaskStepUnique(acc, r) ==
    [rows  |-> acc.rows
               \o SelectSeq(r.rows,
                            LAMBDA row : \A k \in 1..Len(acc.rows) :
                                             acc.rows[k].cit_id # row.cit_id),
     files |-> r.files,
     log   |-> acc.log \o r.log,
     num_tasks_processed |->
         acc.num_tasks_processed + (IF r.rows # <<>> THEN 1 ELSE 0)]

\* every task counted
TaskStepCountAll(acc, r) ==
    [rows  |-> acc.rows \o r.rows,
     files |-> r.files,
     log   |-> acc.log \o r.log,
     num_tasks_processed |-> acc.num_tasks_processed + 1]

\* one round of the loop over task_dirs: the rows added, the task counted if
\* it yielded rows
TaskStep(acc, r) ==
    [rows  |-> acc.rows \o r.rows,
     files |-> r.files,
     log   |-> acc.log \o r.log,
     num_tasks_processed |->
         acc.num_tasks_processed + (IF r.rows # <<>> THEN 1 ELSE 0)]

\* the number of citation files process_task_citations writes for task_dir
Writes(task_dir) ==
    IF task_dir.details.state = "json"
    THEN Len(Get(task_dir.details.data, "citation", <<>>))
    ELSE 0

\* the loop left at the first task whose task record cannot be read
RECURSIVE TaskLoopStop(_, _, _, _, _)
TaskLoopStop(task_dirs, i, acc, seed, faults) ==
    IF i > Len(task_dirs) \/ task_dirs[i].details.state # "json" THEN acc
    ELSE TaskLoopStop(task_dirs, i + 1,
                      TaskStep(acc, process_task_citations(task_dirs[i], acc.files,
                                                           seed, faults)),
                      seed, Worn(faults, Writes(task_dirs[i])))

\* the for loop over task_dirs, from the i-th on
RECURSIVE TaskLoop(_, _, _, _, _)
TaskLoop(task_dirs, i, acc, seed, faults) ==
    IF i > Len(task_dirs) THEN acc
    ELSE TaskLoop(task_dirs, i + 1,
                  TaskStep(acc, process_task_citations(task_dirs[i], acc.files,
                                                       seed, faults)),
                  seed, Worn(faults, Writes(task_dirs[i])))

RECURSIVE MapRows(_, _)
MapRows(rows, i) ==
    IF i > Len(rows) THEN <<>> ELSE <<TableRow(rows[i])>> \o MapRows(rows, i + 1)

Table(rows) == [state |-> "written", rows |-> MapRows(rows, 1)]

\* citation_summary.tsv after a write that broke off: no complete table
TruncatedTable == [state |-> "truncated", rows |-> <<>>]

\* What a run yields: whether an exception left summarize_citations instead
\* of a returned tuple, the tuple, the store and the table it leaves, the
\* records it logs, the rows it collected, whether it reached
\* citation_data_dir.mkdir and whether it wrote the table.
Outcome(raised, result, files, table, records, rows, mkdir, saved) ==
    [raised |-> raised, result |-> result, files |-> files, table |-> table,
     log |-> records, rows |-> rows, mkdir |-> mkdir, saved |-> saved]

\* a table of no rows written when there are none
SaveAndReturnEmptyTable(done, table, write) ==
    IF done.rows = <<>>
    THEN Outcome(FALSE, <<FALSE, 0, 0>>, done.files, Table(done.rows),
                 done.log \o <<LogRec("WARNING", "no_citations", "", "")>>,
                 done.rows, TRUE, TRUE)
    ELSE IF write = "ok"
    THEN Outcome(FALSE, <<TRUE, done.num_tasks_processed, Len(done.rows)>>,
                 done.files, Table(done.rows), done.log, done.rows, TRUE, TRUE)
    ELSE Outcome(FALSE, <<FALSE, done.num_tasks_processed, Len(done.rows)>>,
                 done.files,
                 IF write = "open_fails" THEN table ELSE TruncatedTable,
                 done.log \o <<LogRec("ERROR", "write_table", "", "")>>,
                 done.rows, TRUE, FALSE)

\* the header line counted among the rows
SaveAndReturnHeaderCounted(done, table, write) ==
    IF done.rows = <<>>
    THEN Outcome(FALSE, <<FALSE, 0, 0>>, done.files, table,
                 done.log \o <<LogRec("WARNING", "no_citations", "", "")>>,
                 done.rows, TRUE, FALSE)
    ELSE IF write = "ok"
    THEN Outcome(FALSE, <<TRUE, done.num_tasks_processed, Len(done.rows) + 1>>,
                 done.files, Table(done.rows), done.log, done.rows, TRUE, TRUE)
    ELSE Outcome(FALSE, <<FALSE, done.num_tasks_processed, Len(done.rows) + 1>>,
                 done.files,
                 IF write = "open_fails" THEN table ELSE TruncatedTable,
                 done.log \o <<LogRec("ERROR", "write_table", "", "")>>,
                 done.rows, TRUE, FALSE)

\* lines 252-282: the table written and the tuple returned after the loop.
\* `write` is how df.to_csv ends: "ok"; "open_fails", the file cannot be opened
\* and stays as it was; "dump_fails", the write breaks off after the open has
\* truncated the file.
SaveAndReturn(done, table, write) ==
    IF done.rows = <<>>
    THEN Outcome(FALSE, <<FALSE, 0, 0>>, done.files, table,
                 done.log \o <<LogRec("WARNING", "no_citations", "", "")>>,
                 done.rows, TRUE, FALSE)
    ELSE IF write = "ok"
    THEN Outcome(FALSE, <<TRUE, done.num_tasks_processed, Len(done.rows)>>,
                 done.files, Table(done.rows), done.log, done.rows, TRUE, TRUE)
    ELSE Outcome(FALSE, <<FALSE, done.num_tasks_processed, Len(done.rows)>>,
                 done.files,
                 IF write = "open_fails" THEN table ELSE TruncatedTable,
                 done.log \o <<LogRec("ERROR", "write_table", "", "")>>,
                 done.rows, TRUE, FALSE)

\* The whole run on the input directory `root`, on the disk `faults`.  A
\* task_data that is a plain file passes the exists() test of line 223; the
\* NotADirectoryError of iterdir() in line 233 is caught nowhere.
summarize_citations(root, files, table, seed, faults) ==
    IF root.state \in {"no_root", "no_task_data"}
    THEN Outcome(FALSE, <<FALSE, 0, 0>>, files, table,
                 <<LogRec("ERROR", root.state, "", "")>>, <<>>, FALSE, FALSE)
    ELSE IF root.state = "task_data_file"
    THEN Outcome(TRUE, <<>>, files, table, <<>>, <<>>, TRUE, FALSE)
    ELSE SaveAndReturn(
             TaskLoop(TaskDirs(root.entries, 1), 1,
                      [rows |-> <<>>, files |-> files, log |-> <<>>,
                       num_tasks_processed |-> 0],
                      seed, faults),
             table, faults.tsv)

-----------------------------------------------------------------------------
(* Inputs. *)

TaskName(i) == (IF i % 2 = 1 THEN "trm_" ELSE "tsk_") \o ToString(i)

TaskIds == {TaskName(i) : i \in 1..MaxTasks}

\* dict(base, key=value)
With(base, key, value) ==
    [k \in DOMAIN base \cup {key} |-> IF k = key THEN value ELSE base[k]]

\* with or without the key
Optional(base, key, values) == {base} \cup {With(base, key, v) : v \in values}

OptionalAll(bases, key, values) == UNION {Optional(b, key, values) : b \in bases}

\* The citation references handed to process_citation: identified by an id
\* (without a doi or with one of two), by a pubmed id, by a url, by the
\* description (with or without a doi), or by nothing; those with an id or a
\* pubmed id also with authors.
Citations ==
    Optional([id |-> "c1"], "doi", {"10.1/a", "10.1/b"})
    \cup OptionalAll({[id |-> "c1"], [citation_pmid |-> "12345", citation_desc |-> "Foo"]},
                     "citation_authors", {"Ann"})
    \cup Optional([citation_desc |-> "Foo"], "doi", {"10.1/a"})
    \cup {[citation_url |-> "http://x.org/p/7"], NoData}

\* the secrets an interpreter process may draw
Seeds == {0, 1}

NoTable == [state |-> "absent", rows |-> <<>>]

NoArgs ==
    [citation |-> NoData, existing |-> NoData, new |-> NoData,
     task_dir |-> [name |-> "", is_dir |-> FALSE, details |-> NoFile]]

NoRoot == [state |-> "ok", entries |-> <<>>]

\* The threads of the API server: the event loop, which runs the route
\* handlers, and the workers of the thread pool, which run the background
\* tasks.  A thread runs `op` on the outcome `pending`, has `left` writes
\* under citation_data before it and is or is not in one of them.
Threads == {"loop", "w1", "w2"}

Idle == [op |-> "idle", writing |-> FALSE, left |-> 0, pending |-> <<>>]

\* no request is being served and no background task runs
NoThreads == [t \in Threads |-> Idle]

-----------------------------------------------------------------------------
(* The citation store under calls of process_citation. *)

Init ==
    /\ hashSeed \in Seeds
    /\ store = NoData
    /\ task_data = NoRoot
    /\ tsv = NoTable
    /\ args = NoArgs
    /\ call = [op |-> "none"]
    /\ log = <<>>
    /\ ops = 0
    /\ threads = NoThreads

\* a caller invokes process_citation(citation, task_id, citation_data_dir)
ProcessCitation(citation, task_id) ==
    /\ ops < MaxOps
    /\ \E r \in {process_citation(citation, task_id, store, hashSeed, NoFaults)} :
        /\ ops' = ops + 1
        /\ store' = r.files
        /\ log' = r.log
        /\ call' = [op |-> "process_citation", citation |-> citation,
                    task_id |-> task_id, secret |-> hashSeed, cit_id |-> r.cit_id,
                    existing |-> r.existing, row |-> r.row]
        /\ UNCHANGED <<hashSeed, task_data, tsv, args, threads>>

\* the interpreter exits and a new one starts: a new str-hash secret is drawn;
\* the files stay
StartProcess ==
    /\ ops < MaxOps
    /\ ops' = ops + 1
    /\ hashSeed' \in Seeds
    /\ UNCHANGED <<store, task_data, tsv, args, call, log, threads>>

Next ==
    \/ \E citation \in Citations, task_id \in TaskIds : ProcessCitation(citation, task_id)
    \/ StartProcess

Spec == Init /\ [][Next]_vars

-----------------------------------------------------------------------------
(* Runs of summarize_citations over a fixed input directory. *)

\* the citation references in the task records
RunCitations ==
    {[id |-> "c1", doi |-> "10.1/a"], [id |-> "c1", doi |-> "10.1/b"],
     [citation_desc |-> "Foo"]}

\* lists of at most n elements of S
ListsUpTo(S, n) == UNION {[1..k -> S] : k \in 0..n}

\* {task_id}_details.json: a record with a list of these citations, a record
\* without the key, an unparsable file, JSON that is no object, or no file
DetailFilesOf(citations) ==
    {JsonFile([citation |-> l]) : l \in ListsUpTo(citations, MaxCitations)}
    \cup {JsonFile(NoData), GarbageFile, NoObjectFile, NoFile}

DetailFiles == DetailFilesOf(RunCitations)

\* what task_data may hold under a name: a directory with or without one of
\* these details files, a plain file, or no entry
EntriesOf(files) ==
    {<<[is_dir |-> TRUE, details |-> f]>> : f \in files}
    \cup {<<[is_dir |-> FALSE, details |-> NoFile]>>, <<>>}

\* the names of the task directories of the input, one of each prefix, in the
\* order in which iterdir() yields them, which is not the alphabetical one
RunTaskNames == <<"tsk_2", "trm_1">>

\* the entries chosen for the names of RunTaskNames from the i-th on, in
\* this order
RECURSIVE Listed(_, _)
Listed(choice, i) ==
    IF i > Len(RunTaskNames) THEN <<>>
    ELSE (IF choice[i] = <<>> THEN <<>>
          ELSE <<[name |-> RunTaskNames[i], is_dir |-> choice[i][1].is_dir,
                  details |-> choice[i][1].details]>>)
         \o Listed(choice, i + 1)

\* a directory that is no task directory, although it holds citations
OtherDir(name) ==
    [name |-> name, is_dir |-> TRUE,
     details |-> JsonFile([citation |-> <<[id |-> "c1"]>>])]

\* what task_data may hold besides: nothing, or one such directory under a
\* name that lacks the underscore of the task prefix
Others == {<<>>, <<OtherDir("tsk2")>>}

\* the input directory: missing, without task_data, with a plain file in the
\* place of task_data, or with a task_data that lists entries chosen from
\* `entries` and one of `besides`
InputDirectory(root, entries, besides) ==
    \/ root \in {[state |-> s, entries |-> <<>>] :
                     s \in {"no_root", "no_task_data", "task_data_file"}}
    \/ \E choice \in [1..Len(RunTaskNames) -> entries], others \in besides :
           root = [state |-> "ok", entries |-> Listed(choice, 1) \o others]

\* a table left by a run over an earlier input
StaleTable ==
    [state |-> "written", rows |-> << <<"c0", "trm_0", "", "", "", "">> >>]

InitRun ==
    /\ hashSeed \in Seeds
    /\ store = NoData
    /\ InputDirectory(task_data, EntriesOf(DetailFiles), Others)
    /\ tsv = NoTable
    /\ args = NoArgs
    /\ call = [op |-> "none"]
    /\ log = <<>>
    /\ ops = 0
    /\ threads = NoThreads

\* summarize_citations(cogat_data_path) runs on the disk `faults`
Summarize(faults) ==
    /\ ops < MaxOps
    /\ \E r \in {summarize_citations(task_data, store, tsv, hashSeed, faults)} :
        /\ ops' = ops + 1
        /\ store' = r.files
        /\ tsv' = r.table
        /\ log' = r.log
        /\ call' = [op |-> "summarize_citations", raised |-> r.raised,
                    result |-> r.result, rows |-> r.rows, mkdir |-> r.mkdir,
                    saved |-> r.saved, faults |-> faults, secret |-> hashSeed,
                    store_before |-> store, tsv_before |-> tsv]
        /\ UNCHANGED <<hashSeed, task_data, args, threads>>

\* a caller invokes summarize_citations(cogat_data_path)
SummarizeCitations == Summarize(NoFaults)

NextRun ==
    \/ SummarizeCitations
    \/ StartProcess

SpecRun == InitRun /\ [][NextRun]_vars

-----------------------------------------------------------------------------
(* Runs of summarize_citations on a disk where writes may fail. *)

\* the citation references in the task records
FaultCitations == {[id |-> "c1", doi |-> "10.1/a"], [citation_desc |-> "Foo"]}

\* their citation ids
RunIds == {extract_citation_id(c, seed) : c \in FaultCitations, seed \in Seeds}

\* the disk during one run: sound; the table not writable; the citation file
\* of c1 not writable; or full, for every citation file, once the first one
\* has been written
Disks ==
    {[NoFaults EXCEPT !.tsv = e] : e \in {"ok", "open_fails", "dump_fails"}}
    \cup {[NoFaults EXCEPT !.unwritable = {"c1"}, !.write_error = e] :
             e \in {"open_fails", "dump_fails"}}
    \cup {[NoFaults EXCEPT !.unwritable = RunIds, !.write_error = "dump_fails",
                          !.sound = 1]}

InitFaults ==
    /\ hashSeed = 0
    /\ store = NoData
    /\ InputDirectory(task_data, EntriesOf(DetailFilesOf(FaultCitations)), {<<>>})
    /\ tsv \in {NoTable, StaleTable}
    /\ args = NoArgs
    /\ call = [op |-> "none"]
    /\ log = <<>>
    /\ ops = 0
    /\ threads = NoThreads

\* a caller invokes summarize_citations(cogat_data_path) while the disk is
\* in one of these conditions
SummarizeOnDisk == \E faults \in Disks : Summarize(faults)

NextFaults == SummarizeOnDisk

SpecFaults == InitFaults /\ [][NextFaults]_vars

-----------------------------------------------------------------------------
(* process_task_citations applied to one task directory. *)

\* the store after process_citation has seen c1 for the first task
StoreWithC1 ==
    process_citation([id |-> "c1", doi |-> "10.1/a"], TaskName(1), NoData, 0,
                     NoFaults).files

InitTask ==
    /\ hashSeed \in Seeds
    /\ store \in {NoData, StoreWithC1}
    /\ task_data = NoRoot
    /\ tsv = NoTable
    /\ \E i \in 1..Len(RunTaskNames), f \in DetailFiles :
           args = [NoArgs EXCEPT !.task_dir = [name |-> RunTaskNames[i],
                                               is_dir |-> TRUE, details |-> f]]
    /\ call = [op |-> "none"]
    /\ log = <<>>
    /\ ops = 0
    /\ threads = NoThreads

\* a caller invokes process_task_citations(task_dir, citation_data_dir)
ProcessTaskCitations ==
    /\ ops < MaxOps
    /\ \E r \in {process_task_citations(args.task_dir, store, hashSeed, NoFaults)} :
        /\ ops' = ops + 1
        /\ store' = r.files
        /\ log' = r.log
        /\ call' = [op |-> "process_task_citations", task_dir |-> args.task_dir,
                    raised |-> r.raised, rows |-> r.rows, store_before |-> store]
        /\ UNCHANGED <<hashSeed, task_data, tsv, args, threads>>

NextTask ==
    \/ ProcessTaskCitations
    \/ StartProcess

SpecTask == InitTask /\ [][NextTask]_vars

-----------------------------------------------------------------------------
(* Calls of process_citation on a store that holds a file under c1 which   *)
(* process_citation did not leave: unparsable, or without related_tasks.   *)

\* an entity of c1 as json.dump wrote it, with the tasks it lists
EntityOfC1 ==
    [NewDetails([id |-> "c1", doi |-> "10.1/a"], TaskName(1), "c1")
        EXCEPT !["related_tasks"] = <<TaskName(1), TaskName(2)>>]

\* the same file after the key related_tasks was removed from it
WithoutRelatedTasks(details) ==
    [k \in DOMAIN details \ {"related_tasks"} |-> details[k]]

\* the citation references that resolve to c1
DamagedCitations ==
    {[id |-> "c1", doi |-> "10.1/a"], [id |-> "c1", doi |-> "10.1/b"],
     [id |-> "c1", doi |-> "10.1/a", citation_authors |-> "Ann"]}

InitDamaged ==
    /\ hashSeed \in Seeds
    /\ store \in {[c \in {"c1"} |-> f] :
                    f \in {GarbageFile, JsonFile(WithoutRelatedTasks(EntityOfC1)),
                           JsonFile(EntityOfC1)}}
    /\ task_data = NoRoot
    /\ tsv = NoTable
    /\ args = NoArgs
    /\ call = [op |-> "none"]
    /\ log = <<>>
    /\ ops = 0
    /\ threads = NoThreads

NextDamaged ==
    \/ \E citation \in DamagedCitations, task_id \in TaskIds :
           ProcessCitation(citation, task_id)
    \/ StartProcess

SpecDamaged == InitDamaged /\ [][NextDamaged]_vars

-----------------------------------------------------------------------------
(* extract_citation_id applied to one citation reference, in one interpreter *)
(* process after another.                                                   *)

\* every combination of the keys id, citation_pmid, citation_url and
\* citation_desc: absent, empty or set
ResolveCitations ==
    OptionalAll(
        OptionalAll(
            OptionalAll(
                Optional(NoData, "id", {"", "c1"}),
                "citation_pmid", {"", "12345"}),
            "citation_url",
            {"", "http://x.org/p/7", "http://x.org/p/", "http://x.org/https",
             "http://", "x.org"}),
        "citation_desc", {"", "Foo"})

InitResolve ==
    /\ hashSeed \in Seeds
    /\ store = NoData
    /\ task_data = NoRoot
    /\ tsv = NoTable
    /\ args \in {[NoArgs EXCEPT !.citation = c] : c \in ResolveCitations}
    /\ call = [op |-> "none"]
    /\ log = <<>>
    /\ ops = 0
    /\ threads = NoThreads

\* a caller invokes extract_citation_id(citation)
ExtractCitationId ==
    /\ call' = [op |-> "extract_citation_id", citation |-> args.citation,
                secret |-> hashSeed,
                result |-> extract_citation_id(args.citation, hashSeed)]
    /\ UNCHANGED <<hashSeed, store, task_data, tsv, args, log, ops, threads>>

NextResolve ==
    \/ ExtractCitationId
    \/ StartProcess

SpecResolve == InitResolve /\ [][NextResolve]_vars

-----------------------------------------------------------------------------
(* compare_citation_details applied to a pair of citation dicts. *)

\* the dicts a caller holds: the compared keys absent, empty or set
NewDicts ==
    OptionalAll(
        OptionalAll(
            OptionalAll(
                OptionalAll(
                    Optional([related_tasks |-> <<TaskName(1)>>], "id", {"", "c1"}),
                    "doi", {"", "10.1/a"}),
                "citation_pmid", {"12345"}),
            "citation_url", {"http://x.org/p/7"}),
        "citation_desc", {"Foo"})

ExistingDicts ==
    UNION {Optional(With(d, "related_tasks", l), "citation_authors", {"Ann"}) :
              d \in NewDicts, l \in {<<TaskName(1)>>, <<TaskName(2), TaskName(1)>>}}

InitCompare ==
    /\ hashSeed = 0
    /\ store = NoData
    /\ task_data = NoRoot
    /\ tsv = NoTable
    /\ args \in {[NoArgs EXCEPT !.existing = e, !.new = n] :
                    e \in ExistingDicts, n \in NewDicts}
    /\ call = [op |-> "none"]
    /\ log = <<>>
    /\ ops = 0
    /\ threads = NoThreads

\* a caller invokes compare_citation_details(existing_citation, new_citation)
CompareCitationDetails ==
    /\ call' = [op |-> "compare_citation_details",
                existing |-> args.existing, new |-> args.new,
                result |-> compare_citation_details(args.existing, args.new)]
    /\ UNCHANGED <<hashSeed, store, task_data, tsv, args, log, ops, threads>>

NextCompare == CompareCitationDetails

SpecCompare == InitCompare /\ [][NextCompare]_vars

-----------------------------------------------------------------------------
(* Properties of the resolver and of the comparison. *)

\* d.get(k, "")
Field(d, k) == IF k \in DOMAIN d THEN d[k] ELSE ""

Resolved == call.op = "extract_citation_id"

\* a url part the resolver accepts
Qualifies(part) == part # "" /\ ~StartsWith(part, "http")

\* the parts of the url of the resolved reference
UrlParts == Split(call.citation["citation_url"], "/")

HasQualifyingPart ==
    /\ Field(call.citation, "citation_url") # ""
    /\ \E i \in 1..Len(UrlParts) : Qualifies(UrlParts[i])

\* the result is "url_" and the last qualifying part
IsUrlId(result) ==
    \E i \in 1..Len(UrlParts) :
        /\ Qualifies(UrlParts[i])
        /\ \A j \in (i + 1)..Len(UrlParts) : ~Qualifies(UrlParts[j])
        /\ result = "url_" \o UrlParts[i]

\* "desc_" and the hash of the description (of "unknown" without one) in the
\* process of the call, reduced modulo 1,000,000
DescId ==
    "desc_" \o ToString(
        hash(IF "citation_desc" \in DOMAIN call.citation
             THEN call.citation["citation_desc"] ELSE "unknown", call.secret) % 1000000)

\* C8 (as stated): the id wins, then the pubmed id, then every non-empty url
\* gives "url_" and its last qualifying part, and the description hash is the
\* result only when id, pubmed id and url are all absent or empty.
C8_PriorityOrder ==
    Resolved =>
        LET c == call.citation
            has_id == Field(c, "id") # ""
            has_pmid == Field(c, "citation_pmid") # ""
            has_url == Field(c, "citation_url") # ""
        IN  /\ has_id => call.result = c["id"]
            /\ ~has_id /\ has_pmid => call.result = "pmid_" \o c["citation_pmid"]
            /\ ~has_id /\ ~has_pmid /\ has_url => IsUrlId(call.result)
            /\ (~has_id /\ ~has_pmid /\ ~has_url) <=> call.result = DescId

\* C8 (amended): the id wins, then the pubmed id, then a url that has a
\* qualifying part gives "url_" and the last such part; the description hash
\* is the result exactly when id and pubmed id are absent or empty and the url
\* is absent, empty or has no qualifying part.
C8_PriorityOrderAmended ==
    Resolved =>
        LET c == call.citation
            has_id == Field(c, "id") # ""
            has_pmid == Field(c, "citation_pmid") # ""
        IN  /\ has_id => call.result = c["id"]
            /\ ~has_id /\ has_pmid => call.result = "pmid_" \o c["citation_pmid"]
            /\ ~has_id /\ ~has_pmid /\ HasQualifyingPart => IsUrlId(call.result)
            /\ (~has_id /\ ~has_pmid /\ ~HasQualifyingPart) <=> call.result = DescId

\* a url of parts that are all empty or start with "http" fell through to the
\* description hash
C8_Witness ==
    /\ Resolved
    /\ Field(call.citation, "id") = ""
    /\ Field(call.citation, "citation_pmid") = ""
    /\ Field(call.citation, "citation_url") = "http://"
    /\ call.result = DescId

\* C9: two evaluations of extract_citation_id on equal citation references
\* return the same identifier, whatever happened in between (other calls, a
\* new interpreter process).
C9_Deterministic ==
    [][(/\ call.op = "extract_citation_id"
        /\ call'.op = "extract_citation_id"
        /\ call'.citation = call.citation) => call'.result = call.result]_vars

Compared == call.op = "compare_citation_details"

\* C10: the comparison is true exactly when the two dicts agree on id,
\* citation_pmid, citation_url, citation_desc and doi, a missing key counting
\* as the empty string; no other key is looked at.
C10_FiveKeyFields ==
    Compared =>
        (call.result <=>
            /\ Field(call.existing, "id") = Field(call.new, "id")
            /\ Field(call.existing, "citation_pmid") = Field(call.new, "citation_pmid")
            /\ Field(call.existing, "citation_url") = Field(call.new, "citation_url")
            /\ Field(call.existing, "citation_desc") = Field(call.new, "citation_desc")
            /\ Field(call.existing, "doi") = Field(call.new, "doi"))

\* equal although the authors and the related tasks differ and a doi is
\* missing on one side and empty on the other
C10_Witness ==
    /\ Compared
    /\ call.result
    /\ Field(call.existing, "citation_authors") # Field(call.new, "citation_authors")
    /\ call.existing["related_tasks"] # call.new["related_tasks"]
    /\ "doi" \notin DOMAIN call.existing
    /\ "doi" \in DOMAIN call.new
    /\ Field(call.existing, "citation_pmid") # ""

-----------------------------------------------------------------------------
(* Properties of process_citation on the citation store. *)

Processed == call.op = "process_citation"

\* the keys of an entity other than related_tasks
EntityFields ==
    {"id", "citation_pmid", "citation_url", "citation_desc", "doi",
     "citation_pubname", "citation_authors", "citation_pubdate", "citation_type",
     "citation_source", "citation_comment"}

ContentFields == EntityFields \ {"id"}

\* the call found an entity persisted under the derived identifier
FoundEntity == Processed /\ call.existing.state = "json"

\* the found entity and the incoming citation differ in a compared field
Differs ==
    \/ call.existing.data["id"] # call.cit_id
    \/ \E k \in {"citation_pmid", "citation_url", "citation_desc", "doi"} :
           call.existing.data[k] # Field(call.citation, k)

\* the entity persisted under the identifier of the last call
Persisted == store[call.cit_id].data

KeepsExistingFields == \A k \in EntityFields : Persisted[k] = call.existing.data[k]

ConflictLogged ==
    \E i \in 1..Len(log) :
        log[i] = LogRec("WARNING", "conflict", call.cit_id, call.task_id)

\* s is a prefix of t
IsPrefix(s, t) == Len(s) <= Len(t) /\ SubSeq(t, 1, Len(s)) = s

\* C1: when the call found a differing entity, the persisted entity keeps all
\* of the found entity's field values, its related_tasks contains the task id
\* of the call, and a conflict is logged.
C1_FirstWriteWins ==
    (FoundEntity /\ Differs) =>
        /\ call.cit_id \in DOMAIN store
        /\ KeepsExistingFields
        /\ InList(call.task_id, Persisted["related_tasks"])
        /\ ConflictLogged

\* C2: in every step, every persisted entity stays persisted and its
\* related_tasks before the step is a prefix of its related_tasks after it.
C2_RelatedTasksGrow ==
    [][\A c \in DOMAIN store :
           /\ c \in DOMAIN store'
           /\ IsPrefix(store[c].data["related_tasks"],
                       store'[c].data["related_tasks"])]_vars

\* C4: when the call found an entity that agrees with the incoming citation
\* on the compared fields, the persisted entity has the found entity's field
\* values and the found related_tasks, with the task id appended at the end
\* if and only if it was not in the list.
C4_MatchingMerge ==
    (FoundEntity /\ ~Differs) =>
        /\ call.cit_id \in DOMAIN store
        /\ store[call.cit_id].state = "json"
        /\ DOMAIN Persisted = EntityFields \cup {"related_tasks"}
        /\ KeepsExistingFields
        /\ Persisted["related_tasks"] =
               IF InList(call.task_id, call.existing.data["related_tasks"])
               THEN call.existing.data["related_tasks"]
               ELSE call.existing.data["related_tasks"] \o <<call.task_id>>

\* a second task cited pubmed id 12345 with other authors: one entity, with
\* the first task's authors and related_tasks [T1, T2]
C4_Witness ==
    /\ FoundEntity /\ ~Differs
    /\ call.cit_id = "pmid_12345"
    /\ DOMAIN store = {"pmid_12345"}
    /\ Persisted["related_tasks"] = <<TaskName(1), TaskName(2)>>
    /\ call.task_id = TaskName(2)
    /\ Persisted["citation_authors"] = "Ann"
    /\ Field(call.citation, "citation_authors") = ""

\* C5: when the call found no file under the derived identifier, the entity
\* persisted under it has the incoming citation's fields (absent ones as
\* empty strings), the derived identifier as id and related_tasks [task_id].
C5_FirstEncounter ==
    (Processed /\ call.existing.state = "absent") =>
        /\ call.cit_id = extract_citation_id(call.citation, call.secret)
        /\ call.cit_id \in DOMAIN store
        /\ store[call.cit_id].state = "json"
        /\ DOMAIN Persisted = EntityFields \cup {"related_tasks"}
        /\ Persisted["id"] = call.cit_id
        /\ \A k \in ContentFields : Persisted[k] = Field(call.citation, k)
        /\ Persisted["related_tasks"] = <<call.task_id>>

\* a first encounter of a citation with authors and without a doi, next to an
\* entity persisted earlier
C5_Witness ==
    /\ Processed /\ call.existing.state = "absent"
    /\ Cardinality(DOMAIN store) = 2
    /\ Persisted["citation_authors"] = "Ann"
    /\ "doi" \notin DOMAIN call.citation
    /\ Persisted["doi"] = ""

\* C6: the row of the call carries the task id of the call and the doi,
\* pubmed id, url and description of the entity persisted under its citation
\* id; when a differing entity was found, these are the found entity's values.
C6_RowShowsMerged ==
    Processed =>
        /\ call.row.task_id = call.task_id
        /\ call.row.cit_id = call.cit_id
        /\ \A k \in {"doi", "citation_pmid", "citation_url", "citation_desc"} :
               /\ call.row[k] = Persisted[k]
               /\ (FoundEntity /\ Differs) => call.row[k] = call.existing.data[k]

\* no element occurs twice
NoDuplicates(list) ==
    \A i, j \in 1..Len(list) : list[i] = list[j] => i = j

\* C7: no persisted entity's related_tasks holds a task id twice.
C7_UniqueRelatedTasks ==
    \A c \in DOMAIN store : NoDuplicates(store[c].data["related_tasks"])

\* a task cited an identifier again whose entity already listed it and
\* another task
C7_Witness ==
    /\ FoundEntity
    /\ InList(call.task_id, call.existing.data["related_tasks"])
    /\ Len(Persisted["related_tasks"]) = 2

-----------------------------------------------------------------------------
(* Properties of runs of summarize_citations. *)

\* C3: a run that follows a run over the unchanged input leaves every
\* persisted entity as the earlier run left it and writes the same table.
C3_Idempotent ==
    [][(call.op = "summarize_citations" /\ call'.op = "summarize_citations")
          => (store' = store /\ tsv' = tsv)]_vars

\* the last operation was a run, and it returned its tuple
Ran == call.op = "summarize_citations"

Returned == Ran /\ ~call.raised

\* the run logged this event
Logged(event) == \E i \in 1..Len(log) : log[i].event = event

\* the data rows of citation_summary.tsv as the run wrote it: those of the
\* table if the run wrote one, none otherwise
RowsWritten == IF call.saved THEN Len(tsv.rows) ELSE 0

\* C11: whatever a run returns, its citation_count is the number of data
\* rows of the citation_summary.tsv that this run wrote.
C11_RowCountLaw == Returned => call.result[3] = RowsWritten

\* C11, amended: a run that returns success has written a table of
\* citation_count data rows; a run that fails without a failed write of the
\* table returns the count 0 and has written no table; a run whose write of
\* the table fails returns the number of rows it collected, which is not 0,
\* and leaves the table as it was or truncated, without these rows.
C11_RowCountLawAmended ==
    Returned =>
        /\ call.result[1] =>
               call.saved /\ ~Logged("write_table") /\ call.result[3] = Len(tsv.rows)
        /\ (~call.result[1] /\ ~Logged("write_table")) =>
               ~call.saved /\ call.result[3] = 0
        /\ Logged("write_table") =>
               /\ ~call.result[1]
               /\ ~call.saved
               /\ tsv \in {call.tsv_before, TruncatedTable}
               /\ call.result[3] = Len(call.rows)
               /\ call.result[3] > 0

\* a run replaced a table by one of three rows, after a run whose write of
\* the table had failed on the same input
C11_Witness ==
    /\ Returned
    /\ call.result[1]
    /\ call.result[3] = 3
    /\ Len(tsv.rows) = 3
    /\ call.tsv_before = StaleTable
    /\ ops > 1

\* the entries of task_data that are directories named trm_... or tsk_...
Discovered ==
    {i \in 1..Len(task_data.entries) :
        /\ task_data.entries[i].is_dir
        /\ Len(task_data.entries[i].name) >= 4
        /\ SubSeq(task_data.entries[i].name, 1, 4) \in {"trm_", "tsk_"}}

\* the citation references of the task record of an entry
References(entry) ==
    IF entry.details.state = "json" /\ "citation" \in DOMAIN entry.details.data
    THEN entry.details.data["citation"]
    ELSE <<>>

\* the number of (task, citation reference) pairs of the discovered entries
\* from the i-th on
RECURSIVE Pairs(_)
Pairs(i) ==
    IF i > Len(task_data.entries) THEN 0
    ELSE (IF i \in Discovered THEN Len(References(task_data.entries[i])) ELSE 0)
         + Pairs(i + 1)

\* the rows of the table that name this task
RowsOf(task_id) == {k \in 1..Len(tsv.rows) : tsv.rows[k][2] = task_id}

C13_CountsContributors ==
    (Returned /\ call.result[1]) =>
        /\ call.result[2]
               = Cardinality({i \in Discovered :
                                 RowsOf(task_data.entries[i].name) # {}})
        /\ call.result[2]
               = Cardinality({i \in Discovered :
                                 References(task_data.entries[i]) # <<>>})

\* of two discovered task directories one had no readable task record or no
\* citations, and only the other was counted
C13_Witness ==
    /\ Returned
    /\ call.result[1]
    /\ call.result[2] = 1
    /\ Cardinality(Discovered) = 2
    /\ \E i \in Discovered : task_data.entries[i].details.state # "json"
    /\ ops > 1

\* C15: a run that collected no rows, the input having no (task, citation
\* reference) pair, returns (false, 0, 0), writes no table and leaves
\* citation_summary.tsv as it found it, absent or not.
C15_NoRowsNoTable ==
    (Returned /\ (call.rows = <<>> \/ Pairs(1) = 0)) =>
        /\ call.result = <<FALSE, 0, 0>>
        /\ ~call.saved
        /\ tsv = call.tsv_before

\* a run over task directories without citations found the table of an
\* earlier run and left it
C15_Witness ==
    /\ Returned
    /\ task_data.state = "ok"
    /\ Discovered # {}
    /\ call.rows = <<>>
    /\ call.tsv_before = StaleTable
    /\ tsv = StaleTable

\* the root directory or its task_data is missing
RootMissing == task_data.state \in {"no_root", "no_task_data"}

\* C16: a run on a missing root or task_data returns (false, 0, 0) at once:
\* it processes no task, reaches no citation_data_dir.mkdir, creates no
\* entity and writes no table; every other run is carried through, returning
\* its tuple after all discovered tasks have been processed.
C16_OnlyMissingRootAborts ==
    Ran =>
        /\ RootMissing =>
               /\ ~call.raised
               /\ call.result = <<FALSE, 0, 0>>
               /\ call.rows = <<>>
               /\ Len(log) = 1 /\ log[1].level = "ERROR" /\ log[1].task_id = ""
               /\ ~call.mkdir
               /\ store = call.store_before
               /\ ~call.saved
               /\ tsv = call.tsv_before
        /\ ~RootMissing =>
               /\ ~call.raised
               /\ Len(call.rows) = Pairs(1)

\* the (task, citation reference) pairs of a task directory, in the order of
\* its citation list
PairsOf(entry) ==
    [k \in 1..Len(References(entry)) |->
        [task_id |-> entry.name, citation |-> References(entry)[k]]]

\* those of the discovered entries from the i-th on, in the order of the
\* entries
RECURSIVE PairsFrom(_)
PairsFrom(i) ==
    IF i > Len(task_data.entries) THEN <<>>
    ELSE (IF i \in Discovered THEN PairsOf(task_data.entries[i]) ELSE <<>>)
         \o PairsFrom(i + 1)

\* the row is the one of this pair
RowOfPair(row, pair) ==
    /\ row.task_id = pair.task_id
    /\ row.citation_desc = Field(pair.citation, "citation_desc")
    /\ IF "id" \in DOMAIN pair.citation
       THEN row.cit_id = pair.citation["id"]
       ELSE Len(row.cit_id) > 5 /\ SubSeq(row.cit_id, 1, 5) = "desc_"

\* the rows are the rows of these pairs, in this order
InOrder(pairs) ==
    /\ Len(call.rows) = Len(pairs)
    /\ \A k \in 1..Len(pairs) : RowOfPair(call.rows[k], pairs[k])

\* the row shows the entity persisted under its id, which lists its task
Merged(row) ==
    /\ row.cit_id \in DOMAIN store
    /\ InList(row.task_id, store[row.cit_id].data["related_tasks"])
    /\ \A f \in {"doi", "citation_pmid", "citation_url", "citation_desc"} :
           row[f] = store[row.cit_id].data[f]

\* C19: the rows a run collects are those of the (task, citation reference)
\* pairs in processing order, tasks in the order of discovery and the
\* references of a task in the order of its citation list; the table it
\* writes holds them in this order; and the last row is that of the entity as
\* merged by then.
C19_ProcessingOrder ==
    (Ran /\ task_data.state = "ok") =>
        /\ InOrder(PairsFrom(1))
        /\ call.saved =>
               /\ Len(tsv.rows) = Len(call.rows)
               /\ \A k \in 1..Len(call.rows) :
                      /\ tsv.rows[k][1] = call.rows[k].cit_id
                      /\ tsv.rows[k][2] = call.rows[k].task_id
        /\ call.rows # <<>> => Merged(call.rows[Len(call.rows)])

\* the table holds the rows of tsk_2 before the row of trm_1, and the row of
\* the description before the row of c1: sorted by neither column
C19_Witness ==
    /\ Returned
    /\ call.result[1]
    /\ Len(tsv.rows) = 3
    /\ tsv.rows[1][2] = "tsk_2" /\ tsv.rows[1][6] = "Foo"
    /\ tsv.rows[2][2] = "tsk_2" /\ tsv.rows[2][1] = "c1"
    /\ tsv.rows[3][2] = "trm_1" /\ tsv.rows[3][1] = "c1"

\* the names of the discovered entries
DiscoveredNames == {task_data.entries[i].name : i \in Discovered}

\* the run names the task in a row, in a log record or in an entity
Names(task_id) ==
    \/ \E k \in 1..Len(call.rows) : call.rows[k].task_id = task_id
    \/ RowsOf(task_id) # {}
    \/ \E k \in 1..Len(log) : log[k].task_id = task_id
    \/ \E c \in DOMAIN store : InList(task_id, store[c].data["related_tasks"])

\* C20: a run processes the entries of task_data that are directories named
\* trm_... or tsk_..., each of them, and no other entry: a plain file or a
\* directory of another name has no row, is not counted in task_count, and
\* is named in no entity and no log record.
C20_DiscoveryByPrefix ==
    (Ran /\ task_data.state = "ok") =>
        /\ \A i \in Discovered : Names(task_data.entries[i].name)
        /\ \A i \in 1..Len(task_data.entries) \ Discovered :
               ~Names(task_data.entries[i].name)
        /\ \A k \in 1..Len(call.rows) : call.rows[k].task_id \in DiscoveredNames
        /\ \A c \in DOMAIN store :
               \A k \in 1..Len(store[c].data["related_tasks"]) :
                   store[c].data["related_tasks"][k] \in DiscoveredNames
        /\ call.result[2] <= Cardinality(Discovered)

\* task_data held a plain file named trm_1, the directory tsk2 with a
\* citation of c1, and the task directory tsk_2, which alone was processed
C20_Witness ==
    /\ Returned
    /\ call.result = <<TRUE, 1, 1>>
    /\ Len(task_data.entries) = 3
    /\ Discovered = {1}
    /\ ~task_data.entries[2].is_dir
    /\ task_data.entries[3].name = "tsk2"
    /\ DOMAIN store # {}

\* the discovered task directories whose task record is missing, unparsable
\* or no JSON object
Failing == {i \in Discovered : task_data.entries[i].details.state # "json"}

\* the entries from the i-th on without those task directories
RECURSIVE WithoutFailing(_)
WithoutFailing(i) ==
    IF i > Len(task_data.entries) THEN <<>>
    ELSE (IF i \in Failing THEN <<>> ELSE <<task_data.entries[i]>>)
         \o WithoutFailing(i + 1)

\* the run left what this run leaves
SameAs(other) ==
    /\ call.raised = other.raised
    /\ call.result = other.result
    /\ call.rows = other.rows
    /\ store = other.files
    /\ tsv = other.table

\* C17: a run logs every discovered task whose task record is missing,
\* unparsable or otherwise fails to be read, has no row for it, and returns
\* and leaves exactly the rows, the entities and the table of the run over
\* the input without these task directories.
C17_FailingTaskSkipped ==
    (Ran /\ task_data.state = "ok") =>
        /\ \A i \in Failing :
               /\ RowsOf(task_data.entries[i].name) = {}
               /\ \A k \in 1..Len(call.rows) :
                      call.rows[k].task_id # task_data.entries[i].name
               /\ \E k \in 1..Len(log) :
                      /\ log[k].task_id = task_data.entries[i].name
                      /\ log[k].level \in {"WARNING", "ERROR"}
        /\ SameAs(summarize_citations(
                      [state |-> "ok", entries |-> WithoutFailing(1)],
                      call.store_before, call.tsv_before, call.secret,
                      call.faults))

\* the first task record was no JSON object, and the run went on to write the
\* rows and the entity of the second task
C17_Witness ==
    /\ Returned
    /\ call.result[1]
    /\ Cardinality(Discovered) = 2
    /\ 1 \in Failing
    /\ task_data.entries[1].details.state = "no_object"
    /\ RowsOf(task_data.entries[2].name) # {}
    /\ store # call.store_before

\* the citation ids whose file the disk of the run did not take
Unwritable == call.faults.unwritable

\* the write of the citation file for the k-th row of the run failed
FailedWrite(k) == call.rows[k].cit_id \in Unwritable /\ k > call.faults.sound

\* the files of the other citation ids are these files
SameWritable(files) ==
    /\ DOMAIN store \ Unwritable = DOMAIN files \ Unwritable
    /\ \A c \in DOMAIN store \ Unwritable : store[c] = files[c]

\* the run collected a row for the same citation and task, in the same
\* place, as these rows
SameCitations(rows) ==
    /\ Len(call.rows) = Len(rows)
    /\ \A k \in 1..Len(rows) :
           /\ call.rows[k].cit_id = rows[k].cit_id
           /\ call.rows[k].task_id = rows[k].task_id

\* the run on the sound disk
SoundRun ==
    summarize_citations(task_data, call.store_before, call.tsv_before,
                        call.secret, NoFaults)

\* C18: a run during which writes of citation files fail returns its tuple;
\* it logs each failed write; an entity it wrote before a failed write is on
\* disk after the run, and the entities of the other citation ids are as the
\* run on a sound disk leaves them; it collects and counts a row for every
\* citation reference, the ones whose write failed included, in the order of
\* the run on a sound disk.
C18_FailedWriteNotFatal ==
    (Ran /\ task_data.state = "ok") =>
        /\ ~call.raised
        /\ \A k \in 1..Len(call.rows) :
               FailedWrite(k) =>
                   \E j \in 1..Len(log) :
                       log[j] = LogRec("ERROR", "write", call.rows[k].cit_id,
                                       call.rows[k].task_id)
        /\ \A k, j \in 1..Len(call.rows) :
               (k < j /\ ~FailedWrite(k) /\ FailedWrite(j)) =>
                   /\ call.rows[k].cit_id \in DOMAIN store
                   /\ store[call.rows[k].cit_id].state = "json"
        /\ SameWritable(SoundRun.files)
        /\ SameCitations(SoundRun.rows)
        /\ Len(call.rows) = Pairs(1)
        /\ call.result[3] = Pairs(1)

-----------------------------------------------------------------------------
(* Properties of process_task_citations. *)

\* the last operation was a call of process_task_citations on a task record
\* whose citation list is empty or absent
NoCitations ==
    /\ call.op = "process_task_citations"
    /\ call.task_dir.details.state = "json"
    /\ References(call.task_dir) = <<>>

\* C14: for a task record with an empty citation list or without one,
\* process_task_citations returns no rows and leaves every file of the
\* citation store as it was, creating none.
C14_NoCitationsNoRows ==
    NoCitations => ~call.raised /\ call.rows = <<>> /\ store = call.store_before

\* the call was made with an empty citation list on a store that held an
\* entity
C14_Witness ==
    /\ NoCitations
    /\ "citation" \in DOMAIN call.task_dir.details.data
    /\ call.rows = <<>>
    /\ DOMAIN store = {"c1"}

-----------------------------------------------------------------------------
(* Properties of process_citation on files it cannot use. *)

\* the call found a file it could not parse, or an entity without
\* related_tasks
FoundUnusable ==
    /\ Processed
    /\ \/ call.existing.state = "garbage"
       \/ /\ call.existing.state = "json"
          /\ "related_tasks" \notin DOMAIN call.existing.data

\* C28: a call that finds an unparsable file or an entity without
\* related_tasks logs an error, persists an entity with the fields of the
\* incoming citation and related_tasks = [task_id], and returns the row of
\* the incoming citation.
C28_UnusableFileReplaced ==
    FoundUnusable =>
        /\ \E i \in 1..Len(log) :
               log[i] = LogRec("ERROR", "read", call.cit_id, call.task_id)
        /\ store[call.cit_id].state = "json"
        /\ Persisted["id"] = call.cit_id
        /\ Persisted["related_tasks"] = <<call.task_id>>
        /\ \A k \in ContentFields : Persisted[k] = Field(call.citation, k)
        /\ call.row.cit_id = call.cit_id
        /\ call.row.task_id = call.task_id
        /\ \A k \in {"doi", "citation_pmid", "citation_url", "citation_desc"} :
               call.row[k] = Field(call.citation, k)

\* the call found an entity of another doi without related_tasks and
\* replaced it
C28_Witness ==
    /\ FoundUnusable
    /\ call.existing.state = "json"
    /\ call.existing.data["doi"] = "10.1/a"
    /\ Persisted["doi"] = "10.1/b"
    /\ Persisted["related_tasks"] = <<call.task_id>>


-----------------------------------------------------------------------------
(* parse_article_ids of download_pubmed.py applied to an ArticleIdList. *)

Digits == {"0", "1", "2", "3", "4", "5", "6", "7", "8", "9"}

\* str.isdigit(): the string is not empty and every character is a digit
isdigit(s) == Len(s) > 0 /\ \A i \in 1..Len(s) : SubSeq(s, i, i) \in Digits

\* the four results before the loop
NoIds == [pmid |-> "", pmcid |-> "", doi |-> "", other_ids |-> <<>>]

\* a loop body that keeps the first id of a class instead of the last
ParseStepFirstWins(ids, article_id_str) ==
    IF StartsWith(article_id_str, "10.")
    THEN [ids EXCEPT !.doi = IF @ = "" THEN article_id_str ELSE @]
    ELSE IF StartsWith(article_id_str, "PMC")
    THEN [ids EXCEPT !.pmcid = IF @ = "" THEN article_id_str ELSE @]
    ELSE IF isdigit(article_id_str)
    THEN [ids EXCEPT !.pmid = IF @ = "" THEN article_id_str ELSE @]
    ELSE [ids EXCEPT !.other_ids = Append(@, article_id_str)]

\* one pass of the loop body over an article id
ParseStep(ids, article_id_str) ==
    IF StartsWith(article_id_str, "10.")
    THEN [ids EXCEPT !.doi = article_id_str]
    ELSE IF StartsWith(article_id_str, "PMC")
    THEN [ids EXCEPT !.pmcid = article_id_str]
    ELSE IF isdigit(article_id_str)
    THEN [ids EXCEPT !.pmid = article_id_str]
    ELSE [ids EXCEPT !.other_ids = Append(@, article_id_str)]

RECURSIVE ParseFrom(_, _, _)
ParseFrom(article_id_list, i, ids) ==
    IF i > Len(article_id_list) THEN ids
    ELSE ParseFrom(article_id_list, i + 1, ParseStep(ids, article_id_list[i]))

\* parse_article_ids(article_id_list): (pmid, pmcid, doi, other_ids)
parse_article_ids(article_id_list) == ParseFrom(article_id_list, 1, NoIds)

\* the ids a PubMed record lists: DOIs, PMC ids, PMIDs, publisher ids and an
\* empty id
ArticleIds ==
    {"10.1/a", "10.2/b", "PMC1", "PMC2", "123", "456", "S1-2", ""}

InitParse ==
    /\ hashSeed = 0
    /\ store = NoData
    /\ task_data = NoRoot
    /\ tsv = NoTable
    /\ args \in {[article_id_list |-> l] : l \in ListsUpTo(ArticleIds, MaxIds)}
    /\ call = [op |-> "none"]
    /\ log = <<>>
    /\ ops = 0
    /\ threads = NoThreads

\* a caller invokes parse_article_ids(article_id_list)
ParseArticleIds ==
    /\ call' = [op |-> "parse_article_ids",
                article_id_list |-> args.article_id_list,
                result |-> parse_article_ids(args.article_id_list)]
    /\ UNCHANGED <<hashSeed, store, task_data, tsv, args, log, ops, threads>>

NextParse == ParseArticleIds

SpecParse == InitParse /\ [][NextParse]_vars

-----------------------------------------------------------------------------
(* Properties of parse_article_ids. *)

Parsed == call.op = "parse_article_ids"

\* the class the first matching test puts an id in
ClassOf(id) ==
    IF StartsWith(id, "10.") THEN "doi"
    ELSE IF StartsWith(id, "PMC") THEN "pmcid"
    ELSE IF isdigit(id) THEN "pmid"
    ELSE "other"

\* the positions of the ids of a class in the parsed list
PositionsOf(class) ==
    {i \in 1..Len(call.article_id_list) : ClassOf(call.article_id_list[i]) = class}

\* the last id of a class in the parsed list, the empty string without one
LastOf(class) ==
    IF PositionsOf(class) = {} THEN ""
    ELSE call.article_id_list[CHOOSE i \in PositionsOf(class) :
                                 \A j \in PositionsOf(class) : j <= i]

\* C29: parse_article_ids classifies every id by the first test that matches
\* ("10." prefix: doi, else "PMC" prefix: pmcid, else all digits: pmid, else
\* other); doi, pmcid and pmid are the last id of their class or the empty
\* string, and other_ids are the remaining ids in input order.
C29_FirstMatchLastWins ==
    Parsed =>
        /\ call.result.doi = LastOf("doi")
        /\ call.result.pmcid = LastOf("pmcid")
        /\ call.result.pmid = LastOf("pmid")
        /\ call.result.other_ids =
               SelectSeq(call.article_id_list, LAMBDA id : ClassOf(id) = "other")

\* two DOIs, a PMC id between them: the second DOI wins, no PMID is found
C29_Witness ==
    /\ Parsed
    /\ call.article_id_list = <<"10.1/a", "PMC1", "10.2/b">>
    /\ call.result = [pmid |-> "", pmcid |-> "PMC1", doi |-> "10.2/b",
                      other_ids |-> <<>>]


-----------------------------------------------------------------------------
(* process_citations of download_pubmed.py over a citation_summary.tsv. *)

\* str.strip(): the string without its leading and trailing blanks
RECURSIVE strip(_)
strip(s) ==
    IF s = "" THEN ""
    ELSE IF SubSeq(s, 1, 1) = " " THEN strip(SubSeq(s, 2, Len(s)))
    ELSE IF SubSeq(s, Len(s), Len(s)) = " " THEN strip(SubSeq(s, 1, Len(s) - 1))
    ELSE s

\* "; ".join(other_ids) from position i on
RECURSIVE JoinFrom(_, _)
JoinFrom(other_ids, i) ==
    IF i > Len(other_ids) THEN ""
    ELSE IF i = Len(other_ids) THEN other_ids[i]
    ELSE other_ids[i] \o "; " \o JoinFrom(other_ids, i + 1)

\* the summary entry of a row whose record was fetched: the ids of a
\* non-empty ArticleIdList fill pmid, pmcid and other, and its DOI fills a doi
\* the row left empty; a record without articles raises before any update
Fetched(summary_entry, record) ==
    IF record.articles = 0 \/ record.ids = <<>> THEN summary_entry
    ELSE LET parsed == parse_article_ids(record.ids)
         IN  [summary_entry EXCEPT
                !.pmid = parsed.pmid,
                !.pmcid = parsed.pmcid,
                !.other = JoinFrom(parsed.other_ids, 1),
                !.doi = IF @ = "" /\ parsed.doi # "" THEN parsed.doi ELSE @]

\* a loop body that reports only the rows whose record was fetched
PubmedStepFetchedOnly(done, row, record) ==
    LET cit_id == strip(row[1])
        citation_pmid == strip(row[4])
        summary_entry ==
            [citation_id |-> cit_id, citation_pmid |-> citation_pmid,
             pmid |-> "", pmcid |-> "", doi |-> strip(row[3]), other |-> ""]
    IN  IF cit_id = "" \/ citation_pmid = "" \/ record.state # "fetched" THEN done
        ELSE [summary_data |-> Append(done.summary_data, Fetched(summary_entry, record)),
              requests |-> Append(done.requests, citation_pmid),
              saved |-> done.saved \cup {cit_id}]

\* one pass of the loop body: a row in column_order (cit_id first, doi third,
\* citation_pmid fourth) and what Entrez answers for its PMID
PubmedStep(done, row, record) ==
    LET cit_id == strip(row[1])
        citation_pmid == strip(row[4])
        summary_entry ==
            [citation_id |-> cit_id, citation_pmid |-> citation_pmid,
             pmid |-> "", pmcid |-> "", doi |-> strip(row[3]), other |-> ""]
    IN  IF cit_id = "" THEN done
        ELSE IF citation_pmid = ""
        THEN [done EXCEPT !.summary_data = Append(@, summary_entry)]
        ELSE IF record.state # "fetched"
        THEN [done EXCEPT !.summary_data = Append(@, summary_entry),
                          !.requests = Append(@, citation_pmid)]
        ELSE [summary_data |-> Append(done.summary_data, Fetched(summary_entry, record)),
              requests |-> Append(done.requests, citation_pmid),
              saved |-> done.saved \cup {cit_id}]

RECURSIVE PubmedLoop(_, _, _, _)
PubmedLoop(rows, records, i, done) ==
    IF i > Len(rows) THEN done
    ELSE PubmedLoop(rows, records, i + 1, PubmedStep(done, rows[i], records[i]))

\* process_citations(cogat_data_dir, email, request_rate, limit): the summary
\* entries, the PMIDs requested from Entrez and the citations whose
\* {cit_id}_pubmed.json was saved; raises without a citation_summary.tsv
process_citations(table, records, limit) ==
    IF table.state = "absent"
    THEN [raised |-> TRUE, summary_data |-> <<>>, requests |-> <<>>, saved |-> {}]
    ELSE LET rows == IF limit # 0 /\ limit < Len(table.rows)
                     THEN SubSeq(table.rows, 1, limit) ELSE table.rows
             done == PubmedLoop(rows, records, 1,
                                [summary_data |-> <<>>, requests |-> <<>>, saved |-> {}])
         IN  [raised |-> FALSE, summary_data |-> done.summary_data,
              requests |-> done.requests, saved |-> done.saved]

\* rows of a summary table: with and without a PMID, with and without a DOI,
\* padded with blanks, without a citation id
PubmedRows ==
    {<<"c1", "trm_1", "10.1/a", "123", "", "">>,
     <<"c2 ", "trm_1", "", " 456", "", "">>,
     <<"c3", "tsk_2", " 10.2/b", "", "", "Foo">>,
     <<"", "tsk_2", "", "123", "", "">>,
     <<" ", "tsk_2", "10.1/a", "456", "", "">>}

\* what Entrez answers: no record (the request failed), a record with an
\* ArticleIdList, a record without one, a record without a PubmedArticle
Records ==
    {[state |-> "failed", articles |-> 0, ids |-> <<>>],
     [state |-> "fetched", articles |-> 1, ids |-> <<"123", "10.9/z", "S1-2", "PMC1", "x">>],
     [state |-> "fetched", articles |-> 1, ids |-> <<>>],
     [state |-> "fetched", articles |-> 0, ids |-> <<>>]}

InitPubmed ==
    /\ hashSeed = 0
    /\ store = NoData
    /\ task_data = NoRoot
    /\ \E k \in 0..MaxRows : \E rows \in [1..k -> PubmedRows \X Records] :
          /\ tsv \in {[state |-> "written", rows |-> [i \in 1..k |-> rows[i][1]]],
                      NoTable}
          /\ \E limit \in 0..1 :
                args = [records |-> [i \in 1..k |-> rows[i][2]], limit |-> limit]
    /\ call = [op |-> "none"]
    /\ log = <<>>
    /\ ops = 0
    /\ threads = NoThreads

\* a caller invokes process_citations on the table
ProcessCitations ==
    /\ call' = [op |-> "process_citations", rows |-> tsv.rows, records |-> args.records,
                limit |-> args.limit,
                result |-> process_citations(tsv, args.records, args.limit)]
    /\ UNCHANGED <<hashSeed, store, task_data, tsv, args, log, ops, threads>>

NextPubmed == ProcessCitations

SpecPubmed == InitPubmed /\ [][NextPubmed]_vars


-----------------------------------------------------------------------------
(* Properties of process_citations. *)

Downloaded == call.op = "process_citations" /\ ~call.result.raised

\* the rows the run processes: all of them, or the first limit rows
ProcessedRows ==
    IF call.limit # 0 /\ call.limit < Len(call.rows)
    THEN SubSeq(call.rows, 1, call.limit) ELSE call.rows

\* the positions, in row order, of the processed rows that carry a cit_id
WithCitId ==
    SelectSeq([i \in 1..Len(ProcessedRows) |-> i],
              LAMBDA i : strip(ProcessedRows[i][1]) # "")

\* the fetch for a row was not attempted (no PMID) or failed (no record)
NotFetched(i) ==
    strip(ProcessedRows[i][4]) = "" \/ call.records[i].state = "failed"

\* C25: process_citations returns exactly one summary entry, in row order,
\* for every processed row with a non-empty cit_id (as read, stripped of
\* surrounding blanks), whether its fetch succeeded, failed or was not
\* attempted; without a fetched record pmid, pmcid and other stay empty and
\* doi is the row's doi.
C25_OneEntryPerRow ==
    Downloaded =>
        /\ Len(call.result.summary_data) = Len(WithCitId)
        /\ \A k \in 1..Len(WithCitId) :
              LET entry == call.result.summary_data[k]
                  row == ProcessedRows[WithCitId[k]]
              IN  /\ entry.citation_id = strip(row[1])
                  /\ entry.citation_pmid = strip(row[4])
                  /\ NotFetched(WithCitId[k]) =>
                        /\ entry.pmid = "" /\ entry.pmcid = "" /\ entry.other = ""
                        /\ entry.doi = strip(row[3])

\* a row without cit_id is skipped, the fetch for c1 fails: one entry, for c1,
\* with the row's doi and nothing from PubMed
C25_Witness ==
    /\ Downloaded
    /\ call.limit = 0
    /\ call.rows = << <<"", "tsk_2", "", "123", "", "">>,
                      <<"c1", "trm_1", "10.1/a", "123", "", "">> >>
    /\ call.records[2].state = "failed"
    /\ call.result.summary_data =
           << [citation_id |-> "c1", citation_pmid |-> "123", pmid |-> "",
               pmcid |-> "", doi |-> "10.1/a", other |-> ""] >>


-----------------------------------------------------------------------------
(* Task collection: task_collector.py, get_task_info.py with the script     *)
(* process_cognitive_atlas_tasks.py, and cognitive_atlas_collector.py.       *)
(*                                                                         *)
(* The remote API answers a task list, rows of id and name, and for each    *)
(* row an `answer`: the details of the task (NoData when the request fails  *)
(* or yields nothing) and how the write of {task_id}_details.json ends.     *)
(* `disk` is how the write of the summary files ends.  A run leaves the     *)
(* directory entries it wrote and the trace of its requests and sleeps.     *)

\* task_dir.mkdir(exist_ok=True), and the details file of the directory
\* written unless `details` is NoFile
Entry(entries, name, details) ==
    IF \E i \in 1..Len(entries) : entries[i].name = name
    THEN [i \in 1..Len(entries) |->
             IF entries[i].name = name /\ details # NoFile
             THEN [entries[i] EXCEPT !.details = details] ELSE entries[i]]
    ELSE Append(entries, [name |-> name, is_dir |-> TRUE, details |-> details])

\* the file an open(.., "w") and json.dump leave
Dumped(answer) ==
    IF answer.save = "ok" THEN JsonFile(answer.details)
    ELSE IF answer.save = "dump_fails" THEN GarbageFile ELSE NoFile

\* a loop body that lists every task with an id in the summary
CollectStepListAll(acc, task_row, answer) ==
    IF task_row.id = "" THEN [acc EXCEPT !.failed_tasks = @ + 1]
    ELSE [summary_data |-> Append(acc.summary_data, task_row),
          successful_tasks |->
              acc.successful_tasks
              + (IF answer.details # NoData /\ answer.save = "ok" THEN 1 ELSE 0),
          failed_tasks |->
              acc.failed_tasks
              + (IF answer.details # NoData /\ answer.save = "ok" THEN 0 ELSE 1),
          entries |-> Entry(acc.entries, task_row.id,
                            IF answer.details = NoData THEN NoFile ELSE Dumped(answer)),
          trace |-> Append(acc.trace, [event |-> "request", task_id |-> task_row.id])]

\* one pass of the loop of process_all_tasks over a row of the task list
CollectStep(acc, task_row, answer) ==
    IF task_row.id = "" THEN [acc EXCEPT !.failed_tasks = @ + 1]
    ELSE IF answer.details = NoData
    THEN [acc EXCEPT !.failed_tasks = @ + 1,
                     !.entries = Entry(@, task_row.id, NoFile),
                     !.trace = Append(@, [event |-> "request", task_id |-> task_row.id])]
    ELSE IF answer.save # "ok"
    THEN [acc EXCEPT !.failed_tasks = @ + 1,
                     !.entries = Entry(@, task_row.id, Dumped(answer)),
                     !.trace = Append(@, [event |-> "request", task_id |-> task_row.id])]
    ELSE [summary_data |-> Append(acc.summary_data, task_row),
          successful_tasks |-> acc.successful_tasks + 1,
          failed_tasks |-> acc.failed_tasks,
          entries |-> Entry(acc.entries, task_row.id, Dumped(answer)),
          trace |-> Append(acc.trace, [event |-> "request", task_id |-> task_row.id])]

RECURSIVE CollectLoop(_, _, _, _)
CollectLoop(task_df, answers, i, acc) ==
    IF i > Len(task_df) THEN acc
    ELSE CollectLoop(task_df, answers, i + 1, CollectStep(acc, task_df[i], answers[i]))

\* What a collection run yields: "None", "summary" with the summary rows, or
\* "raised" when an exception leaves the function; the counters, the entries
\* of the output directory and the trace.
Collected(returns, acc) ==
    [returns |-> returns,
     summary |-> IF returns = "summary" THEN acc.summary_data ELSE <<>>,
     successful_tasks |-> acc.successful_tasks, failed_tasks |-> acc.failed_tasks,
     entries |-> acc.entries, trace |-> acc.trace]

\* task_collector.process_all_tasks(output_dir)
process_all_tasks(task_df, answers, entries, disk) ==
    LET acc == CollectLoop(task_df, answers, 1,
                           [summary_data |-> <<>>, successful_tasks |-> 0,
                            failed_tasks |-> 0, entries |-> entries, trace |-> <<>>])
    IN  IF acc.summary_data = <<>> THEN Collected("None", acc)
        ELSE IF disk # "ok" THEN Collected("raised", acc)
        ELSE Collected("summary", acc)

\* get_task_info.process_all_tasks(output_dir): the same loop (lines 60-108
\* repeat lines 85-133 of task_collector.py), and line 132 returns None
\* after the summary files are written as well
get_task_info_process_all_tasks(task_df, answers, entries, disk) ==
    LET acc == CollectLoop(task_df, answers, 1,
                           [summary_data |-> <<>>, successful_tasks |-> 0,
                            failed_tasks |-> 0, entries |-> entries, trace |-> <<>>])
    IN  IF acc.summary_data # <<>> /\ disk # "ok" THEN Collected("raised", acc)
        ELSE Collected("None", acc)

\* main() of process_cognitive_atlas_tasks.py from line 66 on: the exit code
\* and whether SUCCESS was printed
main(task_df, answers, entries, disk) ==
    LET run == get_task_info_process_all_tasks(task_df, answers, entries, disk)
    IN  [exit_code |-> IF run.returns = "summary" THEN 0 ELSE 1,
         success |-> run.returns = "summary", returns |-> run.returns,
         entries |-> run.entries, trace |-> run.trace]

\* The loop of collect_all_task_data over the rows of the frame (and of
\* collect_specific_tasks, lines 326-342, whose filtered rows all have ids):
\* `labels` are the index labels of the rows, counted from 1, and n is the
\* number of rows of the frame.  save_task_details catches nothing, so a
\* failed write ends the run.
RECURSIVE DetailsLoop(_, _, _, _, _, _)
DetailsLoop(rows, answers, labels, k, n, acc) ==
    IF k > Len(labels) \/ acc.raised THEN acc
    ELSE LET row == rows[labels[k]]
             answer == answers[labels[k]]
             asked == Append(acc.trace, [event |-> "request", task_id |-> row.id])
             slept == IF labels[k] - 1 < n - 1
                      THEN Append(asked, [event |-> "sleep", task_id |-> row.id])
                      ELSE asked
         IN  DetailsLoop(rows, answers, labels, k + 1, n,
                 IF row.id = "" THEN acc
                 ELSE IF answer.details = NoData
                 THEN [acc EXCEPT !.failed_details = @ + 1, !.trace = slept]
                 ELSE IF answer.save # "ok"
                 THEN [acc EXCEPT !.raised = TRUE, !.trace = asked,
                                  !.entries = Entry(@, row.id, Dumped(answer))]
                 ELSE [acc EXCEPT !.successful_details = @ + 1, !.trace = slept,
                                  !.entries = Entry(@, row.id, Dumped(answer))])

\* CognitiveAtlasCollector.collect_all_task_data(): get_all_tasks_summary
\* raises without tasks, to_csv raises on a disk that takes no summary
collect_all_task_data(task_list, answers, entries, disk) ==
    IF task_list = <<>> \/ disk # "ok"
    THEN [raised |-> TRUE, entries |-> entries, trace |-> <<>>,
          successful_details |-> 0, failed_details |-> 0]
    ELSE DetailsLoop(task_list, answers, [i \in 1..Len(task_list) |-> i], 1,
                     Len(task_list),
                     [raised |-> FALSE, entries |-> entries, trace |-> <<>>,
                      successful_details |-> 0, failed_details |-> 0])

\* CognitiveAtlasCollector.collect_specific_tasks(task_ids): the filtered
\* frame keeps the index labels the rows have in the full list
collect_specific_tasks(task_ids, task_list, answers, entries, disk) ==
    LET filtered == SelectSeq([i \in 1..Len(task_list) |-> i],
                              LAMBDA i : task_list[i].id \in task_ids)
    IN  IF task_list = <<>> \/ (filtered # <<>> /\ disk # "ok")
        THEN [raised |-> TRUE, entries |-> entries, trace |-> <<>>,
              successful_details |-> 0, failed_details |-> 0]
        ELSE DetailsLoop(task_list, answers, filtered, 1, Len(filtered),
                         [raised |-> FALSE, entries |-> entries, trace |-> <<>>,
                          successful_details |-> 0, failed_details |-> 0])

\* the rows of a task list: three tasks and a row without id
ListedTasks ==
    {[id |-> "trm_1", name |-> "n-back"], [id |-> "tsk_2", name |-> "stroop"],
     [id |-> "trm_3", name |-> "go/no-go"], [id |-> "", name |-> "draft"]}

\* the answers to a details request: details that are saved, details whose
\* write breaks off, no details
Answers ==
    {[details |-> [citation |-> <<[id |-> "c1", citation_pmid |-> "123"]>>],
      save |-> "ok"],
     [details |-> [citation |-> <<[id |-> "c1", citation_pmid |-> "123"]>>],
      save |-> "dump_fails"],
     [details |-> NoData, save |-> "ok"]}

InitCollect ==
    /\ hashSeed = 0
    /\ store = NoData
    /\ task_data = NoRoot
    /\ tsv = NoTable
    /\ \E k \in 0..MaxListed : \E listed \in [1..k -> ListedTasks \X Answers] :
          args = [tasks |-> [i \in 1..k |-> listed[i][1]],
                  answers |-> [i \in 1..k |-> listed[i][2]]]
    /\ call = [op |-> "none"]
    /\ log = <<>>
    /\ ops = 0
    /\ threads = NoThreads

\* a collection run `op` into an output directory that holds no task yet
Collection(op, result, disk) ==
    /\ task_data.entries = <<>>
    /\ task_data' = [task_data EXCEPT !.entries = result.entries]
    /\ log' = result.trace
    /\ call' = [op |-> op, tasks |-> args.tasks, answers |-> args.answers,
                disk |-> disk, result |-> result]
    /\ UNCHANGED <<hashSeed, store, tsv, args, ops, threads>>

ProcessAllTasks ==
    \E disk \in {"ok", "summary_fails"} :
        Collection("process_all_tasks",
                   process_all_tasks(args.tasks, args.answers, task_data.entries, disk),
                   disk)

Main ==
    \E disk \in {"ok", "summary_fails"} :
        Collection("main", main(args.tasks, args.answers, task_data.entries, disk),
                   disk)

CollectAllTaskData ==
    \E disk \in {"ok", "summary_fails"} :
        Collection("collect_all_task_data",
                   collect_all_task_data(args.tasks, args.answers, task_data.entries, disk),
                   disk)

CollectSpecificTasks ==
    \E task_ids \in {{"trm_1", "tsk_2"}, {"tsk_2"}} :
        Collection("collect_specific_tasks",
                   collect_specific_tasks(task_ids, args.tasks, args.answers,
                                          task_data.entries, "ok"),
                   "ok")

NextCollect ==
    \/ ProcessAllTasks
    \/ Main
    \/ CollectAllTaskData
    \/ CollectSpecificTasks

SpecCollect == InitCollect /\ [][NextCollect]_vars


-----------------------------------------------------------------------------
(* Properties of the collection runs. *)

\* the details of the i-th listed task were retrieved and saved
Saved(i) ==
    /\ call.tasks[i].id # ""
    /\ call.answers[i].details # NoData
    /\ call.answers[i].save = "ok"

\* the listed tasks whose details were retrieved and saved, in list order
SavedTasks ==
    SelectSeq([i \in 1..Len(call.tasks) |-> i], LAMBDA i : Saved(i))

\* C26: task_collector.process_all_tasks, when it returns, returns None if and
\* only if no task's details were both retrieved and saved; otherwise the
\* summary has exactly one row, in list order, per task whose details file
\* was written; successful + failed is the number of tasks listed.
C26_SummaryOfSavedTasks ==
    (call.op = "process_all_tasks" /\ call.result.returns # "raised") =>
        /\ call.result.returns = "None" <=> SavedTasks = <<>>
        /\ call.result.returns = "summary" =>
              call.result.summary = [k \in 1..Len(SavedTasks) |-> call.tasks[SavedTasks[k]]]
        /\ call.result.successful_tasks + call.result.failed_tasks = Len(call.tasks)

\* three tasks listed: the details of the first are not retrieved, those of
\* the second are saved, the write for the third breaks off
C26_Witness ==
    /\ call.op = "process_all_tasks"
    /\ Len(call.tasks) = 3
    /\ call.answers[1].details = NoData
    /\ Saved(2)
    /\ call.tasks[3].id # "" /\ call.answers[3].details # NoData
    /\ call.answers[3].save = "dump_fails"
    /\ call.result.returns = "summary"
    /\ call.result.summary = <<call.tasks[2]>>
    /\ call.result.successful_tasks = 1 /\ call.result.failed_tasks = 2

\* C30: main of process_cognitive_atlas_tasks.py reports SUCCESS and returns 0
\* whenever the details of at least one task were retrieved and saved and
\* the summary files were written; it returns 1 only when no task was
\* processed successfully or the run did not complete.
C30_ScriptReportsSuccess ==
    call.op = "main" =>
        /\ (SavedTasks # <<>> /\ call.disk = "ok") =>
              (call.result.success /\ call.result.exit_code = 0)
        /\ call.result.exit_code = 1 =>
              (SavedTasks = <<>> \/ call.result.returns = "raised")

\* C22: in every collection run, a sleep lies between any two successive
\* task-detail requests: the trace of requests and sleeps holds no two
\* requests in a row.
C22_SleepBetweenRequests ==
    call.op \in {"process_all_tasks", "collect_all_task_data",
                 "collect_specific_tasks"} =>
        \A i \in 1..Len(log) - 1 :
            ~(log[i].event = "request" /\ log[i + 1].event = "request")


-----------------------------------------------------------------------------
(* The API server of api.py: one uvicorn process.  The route handlers are   *)
(* coroutines without an await, so the event loop runs one handler at a     *)
(* time from its first line to its response.  A background task added with  *)
(* a plain function runs in a worker of the thread pool once the response   *)
(* is out, while the event loop serves the next request.                    *)
(*                                                                         *)
(* A thread that runs summarize_citations or process_citations holds the    *)
(* outcome of its run in `pending` and goes through the writes of the run   *)
(* one by one; the files show the outcome when the run has ended.           *)

\* GET path: the routes of lines 59-68, Not Found for every other path
get(path) ==
    IF path = "/"
    THEN [status_code |-> 200, body |-> [message |-> "Welcome to HED Task API"]]
    ELSE IF path = "/health"
    THEN [status_code |-> 200, body |-> [status |-> "healthy"]]
    ELSE [status_code |-> 404, body |-> [detail |-> "Not Found"]]

\* a handler that answers with the counts whatever the aggregator returned
generate_citations_endpoint_always_success(root, r) ==
    IF root \in {"no_root", "no_task_data"}
    THEN [status_code |-> 400, invoked |-> FALSE, status |-> "error",
          task_count |-> 0, citation_count |-> 0]
    ELSE IF ~r.raised
    THEN [status_code |-> 200, invoked |-> TRUE, status |-> "success",
          task_count |-> r.result[2], citation_count |-> r.result[3]]
    ELSE [status_code |-> 500, invoked |-> TRUE, status |-> "error",
          task_count |-> 0, citation_count |-> 0]

\* POST /generate-citations: the response for the state `root` of the data
\* directory and the outcome r of summarize_citations, which is invoked only
\* when the directory and its task_data exist
generate_citations_endpoint(root, r) ==
    IF root \in {"no_root", "no_task_data"}
    THEN [status_code |-> 400, invoked |-> FALSE, status |-> "error",
          task_count |-> 0, citation_count |-> 0]
    ELSE IF ~r.raised /\ r.result[1]
    THEN [status_code |-> 200, invoked |-> TRUE, status |-> "success",
          task_count |-> r.result[2], citation_count |-> r.result[3]]
    ELSE [status_code |-> 500, invoked |-> TRUE, status |-> "error",
          task_count |-> 0, citation_count |-> 0]

\* what the remote services answer while the server runs: one task that
\* cites c1 with a PMID, and a PubMed record for every PMID or for none
Remote ==
    [tasks |-> <<[id |-> "trm_1", name |-> "n-back"]>>,
     answers |-> <<[details |-> [citation |-> <<[id |-> "c1", citation_pmid |-> "123"]>>],
                    save |-> "ok"]>>,
     records |-> {[state |-> "failed", articles |-> 0, ids |-> <<>>],
                  [state |-> "fetched", articles |-> 1, ids |-> <<"123", "10.9/z">>]}]

\* the worker the thread pool hands the next background task to
Worker == IF threads.w1.op = "idle" THEN "w1" ELSE "w2"

InitApi ==
    /\ hashSeed = 0
    /\ store = NoData
    /\ InputDirectory(task_data,
                      EntriesOf({JsonFile([citation |-> Remote.answers[1].details.citation]),
                                 JsonFile(NoData)}),
                      {<<>>})
    /\ tsv \in {NoTable,
                [state |-> "written", rows |-> << <<"c1", "trm_1", "", "123", "", "">> >>]}
    /\ args = NoArgs
    /\ call = [op |-> "none"]
    /\ log = <<>>
    /\ ops = 0
    /\ threads = NoThreads

\* GET / , GET /health or GET /version
GetRequest ==
    /\ ops < MaxOps
    /\ threads.loop.op = "idle"
    /\ \E path \in {"/", "/health", "/version"} :
          call' = [op |-> "get", path |-> path, response |-> get(path)]
    /\ ops' = ops + 1
    /\ UNCHANGED <<hashSeed, store, task_data, tsv, args, log, threads>>

\* POST /generate-citations: lines 113-126 answer 400, or line 128 enters
\* summarize_citations on a disk that takes the table or does not
PostGenerateCitations ==
    /\ ops < MaxOps
    /\ threads.loop.op = "idle"
    /\ \E faults \in {NoFaults, [NoFaults EXCEPT !.tsv = "open_fails"]} :
        \E r \in {summarize_citations(task_data, store, tsv, hashSeed, faults)} :
          IF task_data.state \in {"no_root", "no_task_data"}
          THEN /\ call' = [op |-> "generate_citations", root |-> task_data.state,
                           raised |-> FALSE, result |-> <<>>,
                           response |-> generate_citations_endpoint(task_data.state, r)]
               /\ UNCHANGED threads
          ELSE /\ threads' = [threads EXCEPT !.loop =
                                 [op |-> "summarize_citations", writing |-> FALSE,
                                  left |-> Len(r.rows),
                                  pending |-> [root |-> task_data.state, outcome |-> r]]]
               /\ UNCHANGED call
    /\ ops' = ops + 1
    /\ UNCHANGED <<hashSeed, store, task_data, tsv, args, log>>

\* summarize_citations returns or raises, lines 130-148 answer
GenerateCitationsResponds ==
    /\ threads.loop.op = "summarize_citations"
    /\ threads.loop.left = 0 /\ ~threads.loop.writing
    /\ \E r \in {threads.loop.pending.outcome} :
        /\ store' = r.files
        /\ tsv' = r.table
        /\ log' = r.log
        /\ call' = [op |-> "generate_citations", root |-> threads.loop.pending.root,
                    raised |-> r.raised, result |-> r.result,
                    response |-> generate_citations_endpoint(threads.loop.pending.root, r)]
    /\ threads' = [threads EXCEPT !.loop = Idle]
    /\ UNCHANGED <<hashSeed, task_data, args, ops>>

\* POST /download-pubmed: lines 156-169 answer 400, or run_pubmed_download
\* starts in a worker and the handler answers "started"
PostDownloadPubmed ==
    /\ ops < MaxOps
    /\ threads.loop.op = "idle"
    /\ IF task_data.state = "no_root" \/ tsv.state = "absent"
       THEN /\ call' = [op |-> "download_pubmed", status_code |-> 400, status |-> "error"]
            /\ UNCHANGED threads
       ELSE /\ threads[Worker].op = "idle"
            /\ \E record \in Remote.records :
                \E done \in {process_citations(tsv, [i \in 1..Len(tsv.rows) |-> record], 0)} :
                  threads' = [threads EXCEPT ![Worker] =
                                 [op |-> "process_citations", writing |-> FALSE,
                                  left |-> IF record.state = "fetched"
                                           THEN Len(done.requests) ELSE 0,
                                  pending |-> done]]
            /\ call' = [op |-> "download_pubmed", status_code |-> 200, status |-> "started"]
    /\ ops' = ops + 1
    /\ UNCHANGED <<hashSeed, store, task_data, tsv, args, log>>

\* POST /tasks/collect-all: line 80 makes task_data, run_collection starts in
\* a worker and the handler answers "started"; 500 when the mkdir raises
PostCollectAll ==
    /\ ops < MaxOps
    /\ threads.loop.op = "idle"
    /\ IF task_data.state = "task_data_file"
       THEN /\ call' = [op |-> "collect_all_tasks", status_code |-> 500, status |-> "error"]
            /\ UNCHANGED <<threads, task_data>>
       ELSE /\ threads[Worker].op = "idle"
            /\ task_data' = [state |-> "ok", entries |-> task_data.entries]
            /\ threads' = [threads EXCEPT ![Worker] =
                              [op |-> "process_all_tasks", writing |-> FALSE, left |-> 0,
                               pending |-> process_all_tasks(Remote.tasks, Remote.answers,
                                                             task_data.entries, "ok")]]
            /\ call' = [op |-> "collect_all_tasks", status_code |-> 200, status |-> "started"]
    /\ ops' = ops + 1
    /\ UNCHANGED <<hashSeed, store, tsv, args, log>>

\* a thread opens a file under citation_data for writing: citation_details.json
\* in process_citation, {cit_id}_pubmed.json in save_pubmed_record
BeginWrite(t) ==
    /\ threads[t].left > 0 /\ ~threads[t].writing
    /\ threads' = [threads EXCEPT ![t].writing = TRUE]
    /\ UNCHANGED <<hashSeed, store, task_data, tsv, args, call, log, ops>>

\* the thread has written the file and closes it
EndWrite(t) ==
    /\ threads[t].writing
    /\ threads' = [threads EXCEPT ![t].writing = FALSE, ![t].left = @ - 1]
    /\ UNCHANGED <<hashSeed, store, task_data, tsv, args, call, log, ops>>

\* a background task ends: run_collection has filled task_data,
\* run_pubmed_download has saved its summary
BackgroundTaskEnds(w) ==
    /\ threads[w].op \in {"process_citations", "process_all_tasks"}
    /\ threads[w].left = 0 /\ ~threads[w].writing
    /\ task_data' = IF threads[w].op = "process_all_tasks"
                    THEN [task_data EXCEPT !.entries = threads[w].pending.entries]
                    ELSE task_data
    /\ threads' = [threads EXCEPT ![w] = Idle]
    /\ UNCHANGED <<hashSeed, store, tsv, args, call, log, ops>>

NextApi ==
    \/ GetRequest
    \/ PostGenerateCitations
    \/ GenerateCitationsResponds
    \/ PostDownloadPubmed
    \/ PostCollectAll
    \/ \E t \in Threads : BeginWrite(t)
    \/ \E t \in Threads : EndWrite(t)
    \/ \E w \in Threads \ {"loop"} : BackgroundTaskEnds(w)

SpecApi == InitApi /\ [][NextApi]_vars

-----------------------------------------------------------------------------
(* Properties of the API server. *)

\* the threads that are writing a file under citation_data
Writers == {t \in Threads : threads[t].writing}

\* C21: citation_data is accessed strictly sequentially: never are two
\* operations of the server writing under citation_data at the same time.
C21_NoConcurrentWriters == Cardinality(Writers) <= 1

\* C24: GET /version answers 200 with the version "0.1.0", GET / and
\* GET /health answer 200 with their fixed bodies.
C24_VersionEndpoint ==
    call.op = "get" =>
        /\ call.response.status_code = 200
        /\ call.path = "/version" =>
              ("version" \in DOMAIN call.response.body
               /\ call.response.body.version = "0.1.0")
        /\ call.path = "/" =>
              call.response.body = [message |-> "Welcome to HED Task API"]
        /\ call.path = "/health" => call.response.body = [status |-> "healthy"]

Answered == call.op = "generate_citations"

\* C23: POST /generate-citations answers 400 without invoking the aggregator
\* when the data directory or its task_data is missing; otherwise it invokes
\* the aggregator and answers status "success" with exactly the aggregator's
\* task_count and citation_count if and only if the aggregator returned
\* success, and 500 whenever the aggregator returned failure or raised.
C23_EndpointAddsNoLogic ==
    Answered =>
        IF call.root \in {"no_root", "no_task_data"}
        THEN call.response.status_code = 400 /\ ~call.response.invoked
        ELSE /\ call.response.invoked
             /\ (~call.raised /\ call.result[1]) <=>
                    (call.response.status_code = 200 /\ call.response.status = "success")
             /\ call.response.status = "success" =>
                    /\ call.response.task_count = call.result[2]
                    /\ call.response.citation_count = call.result[3]
             /\ (call.raised \/ ~call.result[1]) => call.response.status_code = 500

\* the aggregator succeeds with two tasks and two citations, and the
\* response carries these counts
C23_Witness ==
    /\ Answered
    /\ call.root = "ok"
    /\ call.result = <<TRUE, 2, 2>>
    /\ call.response.status_code = 200
    /\ call.response.task_count = 2 /\ call.response.citation_count = 2


-----------------------------------------------------------------------------
(* full_workflow of cli.py: collect, summarize, download. *)

\* What a run of the command yields: the exit code, the steps it started in
\* their order, what the collection returned, the tuple of the aggregator
\* (empty when it was not reached), the entries summarized by PubMed, and
\* the task directories, the store and the table it leaves.
Workflow(exit_code, trace, returns, result, pubmed, entries, files, table) ==
    [exit_code |-> exit_code, trace |-> trace, returns |-> returns,
     result |-> result, pubmed |-> pubmed, entries |-> entries, files |-> files,
     table |-> table]

\* a step 3 that starts whenever an email was given
full_workflow_email_only(collected, r, email, record) ==
    IF r.raised
    THEN Workflow(1, <<"collect", "summarize">>, collected.returns, <<>>, <<>>,
                  collected.entries, r.files, r.table)
    ELSE IF email # ""
    THEN Workflow(0, <<"collect", "summarize", "pubmed">>, collected.returns, r.result,
                  process_citations(r.table, [i \in 1..Len(r.table.rows) |-> record],
                                    0).summary_data,
                  collected.entries, r.files, r.table)
    ELSE Workflow(0, <<"collect", "summarize">>, collected.returns, r.result, <<>>,
                  collected.entries, r.files, r.table)

\* lines 159-218: after summarize_citations gave the outcome r, step 3 runs
\* for an email and a successful summary; every exception of step 3 is
\* caught at line 195
full_workflow_summarized(collected, r, email, record) ==
    IF r.raised
    THEN Workflow(1, <<"collect", "summarize">>, collected.returns, <<>>, <<>>,
                  collected.entries, r.files, r.table)
    ELSE IF email # "" /\ r.result[1]
    THEN Workflow(0, <<"collect", "summarize", "pubmed">>, collected.returns, r.result,
                  process_citations(r.table, [i \in 1..Len(r.table.rows) |-> record],
                                    0).summary_data,
                  collected.entries, r.files, r.table)
    ELSE Workflow(0, <<"collect", "summarize">>, collected.returns, r.result, <<>>,
                  collected.entries, r.files, r.table)

\* lines 147-157: after process_all_tasks gave `collected`, typer.Exit(1)
\* without a summary, else step 2
full_workflow_collected(collected, files, table, email, record, seed, faults) ==
    IF collected.returns # "summary"
    THEN Workflow(1, <<"collect">>, collected.returns, <<>>, <<>>, collected.entries,
                  files, table)
    ELSE full_workflow_summarized(
             collected,
             summarize_citations([state |-> "ok", entries |-> collected.entries],
                                 files, table, seed, faults),
             email, record)

\* full_workflow(output_dir, email, ..): lines 138-143 make output_dir and
\* task_data, and raise when task_data is a plain file
full_workflow(root, files, table, remote, email, seed, faults, disk) ==
    IF root.state = "task_data_file"
    THEN Workflow(1, <<>>, "raised", <<>>, <<>>, root.entries, files, table)
    ELSE full_workflow_collected(
             process_all_tasks(remote.tasks, remote.answers, root.entries, disk),
             files, table, email, remote.record, seed, faults)

InitWorkflow ==
    /\ hashSeed = 0
    /\ store = NoData
    /\ task_data \in {[state |-> s, entries |-> <<>>] :
                         s \in {"no_root", "ok", "task_data_file"}}
    /\ tsv = NoTable
    /\ \E k \in 0..MaxTasks : \E listed \in [1..k -> ListedTasks \X Answers] :
        \E email \in {"", "a@b.org"} :
          args = [tasks |-> [i \in 1..k |-> listed[i][1]],
                  answers |-> [i \in 1..k |-> listed[i][2]], email |-> email]
    /\ call = [op |-> "none"]
    /\ log = <<>>
    /\ ops = 0
    /\ threads = NoThreads

\* hed-task full-workflow into an output directory that holds no task yet
FullWorkflow ==
    /\ task_data.entries = <<>>
    /\ \E record \in Remote.records, disk \in {"ok", "summary_fails"},
          faults \in {NoFaults, [NoFaults EXCEPT !.tsv = "open_fails"]} :
        \E done \in {full_workflow(task_data, store, tsv,
                                   [tasks |-> args.tasks, answers |-> args.answers,
                                    record |-> record],
                                   args.email, hashSeed, faults, disk)} :
          /\ task_data' = IF task_data.state = "task_data_file" THEN task_data
                          ELSE [state |-> "ok", entries |-> done.entries]
          /\ store' = done.files
          /\ tsv' = done.table
          /\ call' = [op |-> "full_workflow", email |-> args.email,
                      exit_code |-> done.exit_code, trace |-> done.trace,
                      returns |-> done.returns, result |-> done.result,
                      pubmed |-> done.pubmed]
    /\ UNCHANGED <<hashSeed, args, log, ops, threads>>

NextWorkflow == FullWorkflow

SpecWorkflow == InitWorkflow /\ [][NextWorkflow]_vars

-----------------------------------------------------------------------------
(* Properties of full_workflow. *)

Started(step) == \E i \in 1..Len(call.trace) : call.trace[i] = step

\* C27: full_workflow starts its steps in the order collect, summarize,
\* PubMed download; when the collection returns no summary it exits with 1
\* and the aggregator is never invoked; a summary that fails does not abort
\* it (exit code 0); the download is started only for an email and a
\* successful summary.
C27_WorkflowOrder ==
    call.op = "full_workflow" =>
        /\ call.trace \in {<<>>, <<"collect">>, <<"collect", "summarize">>,
                           <<"collect", "summarize", "pubmed">>}
        /\ call.returns = "None" => (call.exit_code = 1 /\ ~Started("summarize"))
        /\ (Started("summarize") /\ call.result # <<>> /\ ~call.result[1]) =>
              call.exit_code = 0
        /\ Started("pubmed") => (call.email # "" /\ call.result[1])

\* an email is given, tasks are collected, the summary fails: the workflow
\* ends with exit code 0 and without the download
C27_Witness ==
    /\ call.op = "full_workflow"
    /\ call.email # ""
    /\ call.returns = "summary"
    /\ call.result # <<>> /\ ~call.result[1]
    /\ call.trace = <<"collect", "summarize">>
    /\ call.exit_code = 0

====
